---------------------------- MODULE Spec2Model ----------------------------
(***************************************************************************)
(* Valen kernel core: physical memory manager, paging, VMM, kernel heap    *)
(* and task scheduler, modelled from the C sources.                        *)
(*                                                                         *)
(* Addresses.  A 64-bit address is kept as a record [k, off] that stands   *)
(* for  off + k * KERNEL_VIRT_OFFSET  (mod 2^64)  with 0 <= off < 2^31.    *)
(* KERNEL_VIRT_OFFSET is 0xFFFFFFFF80000000 = 2^64 - 2^31, so k = 0 is a   *)
(* physical (low) address, k = 1 its higher-half alias and k = 2 the       *)
(* address obtained by adding the offset twice (0xFFFFFFFF00000000 + off). *)
(***************************************************************************)
EXTENDS Integers, Naturals, Sequences, FiniteSets, TLC

VARIABLES
    pmm,        \* pmm.c statics: bitmap, bitmap_size, total_pages, used_pages
    boot,       \* kmain locals fixed at boot: bitmap_phys, b_end
    pmm_last,   \* history: the last PMM call, its argument and its result
    rt,         \* history of the allocate/free round trip scenario
    mem,        \* page-table memory: table pointer -> (index -> 64-bit entry)
    next_virt_addr, \* vmm_alloc's static bump cursor
    hw,         \* the machine: whether the window at twice the offset is
                \* mapped, and whether the CPU has halted in a page fault
    pg,         \* history: the leaf mappings requested with the present bit
    heap,       \* heap statics: head, and the heap_node_t headers in memory
    heap_hist,  \* history: live allocations, the last call and its result
    task,       \* task.c statics and the task_t descriptors in memory
    task_hist,  \* history: the last scheduler call and the recent switches
    stk,        \* one task's kernel stack, its saved context and the CPU
    irq,        \* one CPU with the PIC, pic_lock and the interrupt frames
    spin,       \* a spinlock_t word and the contexts that contend for it
    mlk,        \* memory-subsystem locks held by the calling context
    tlk,        \* runqueue_lock, current_task_lock and the contexts using them
    kbd,        \* keyboard driver statics and the last handler run
    cmap,       \* two contexts inside paging_map on shared page tables
    kboot,      \* kmain: the bring-up steps performed so far
    idt,        \* the interrupt descriptor table and the IDTR
    yld,        \* one task inside yield() while the timer ticks
    vmc,        \* the last call of vmm_alloc: its arguments, result and cursor
    intr,        \* an interrupt being served by its stub: registers, stack, position
    lkc,        \* a call in progress, as the lock operations and calls of each function on its stack
    mbx,        \* process_pending_key in progress, and which deposited key is where
    pio         \* the port accesses of the last keyboard_handler or pic_send_eoi call

pmm_vars == <<pmm, boot, pmm_last, rt>>
paging_vars == <<mem, next_virt_addr, hw, pg>>
heap_vars == <<heap, heap_hist>>
task_vars == <<task, task_hist>>
side_vars == <<stk, irq, spin, mlk, tlk, kbd, cmap, kboot, idt, yld, vmc, intr, lkc, mbx, pio>>
but_stk == <<irq, spin, mlk, tlk, kbd, cmap, kboot, idt, yld, vmc, intr, lkc, mbx, pio>>
but_irq == <<stk, spin, mlk, tlk, kbd, cmap, kboot, idt, yld, vmc, intr, lkc, mbx, pio>>
but_spin == <<stk, irq, mlk, tlk, kbd, cmap, kboot, idt, yld, vmc, intr, lkc, mbx, pio>>
but_mlk == <<stk, irq, spin, tlk, kbd, cmap, kboot, idt, yld, vmc, intr, lkc, mbx, pio>>
but_tlk == <<stk, irq, spin, mlk, kbd, cmap, kboot, idt, yld, vmc, intr, lkc, mbx, pio>>
but_kbd == <<stk, irq, spin, mlk, tlk, cmap, kboot, idt, yld, vmc, intr, lkc, mbx, pio>>
but_cmap == <<stk, irq, spin, mlk, tlk, kbd, kboot, idt, yld, vmc, intr, lkc, mbx, pio>>
but_kboot == <<stk, irq, spin, mlk, tlk, kbd, cmap, idt, yld, vmc, intr, lkc, mbx, pio>>
but_idt == <<stk, irq, spin, mlk, tlk, kbd, cmap, kboot, yld, vmc, intr, lkc, mbx, pio>>
but_yld == <<stk, irq, spin, mlk, tlk, kbd, cmap, kboot, idt, vmc, intr, lkc, mbx, pio>>
but_vmc == <<stk, irq, spin, mlk, tlk, kbd, cmap, kboot, idt, yld, intr, lkc, mbx, pio>>
but_intr == <<stk, irq, spin, mlk, tlk, kbd, cmap, kboot, idt, yld, vmc, lkc, mbx, pio>>
but_lkc == <<stk, irq, spin, mlk, tlk, kbd, cmap, kboot, idt, yld, vmc, intr, mbx, pio>>
but_mbx == <<stk, irq, spin, mlk, tlk, kbd, cmap, kboot, idt, yld, vmc, intr, lkc, pio>>
but_pio == <<stk, irq, spin, mlk, tlk, kbd, cmap, kboot, idt, yld, vmc, intr, lkc, mbx>>
\* the variables declared after idt
side_rest == <<yld, vmc, intr, lkc, mbx, pio>>
core_vars == <<pmm_vars, paging_vars, heap_vars, task_vars>>
vars == <<pmm, boot, pmm_last, rt, mem, next_virt_addr, hw, pg, heap, heap_hist,
          task, task_hist, stk, irq, spin, mlk, tlk, kbd, cmap, kboot,
          idt,
          yld,
          vmc,
          intr,
          lkc,
          mbx,
          pio>>

----------------------------------------------------------------------------
(* Bounds of the model *)

\* frames of RAM above the first 2 MiB in the boot memory map
ExtraFrames == 9
\* used_pages is a uint64_t counter; calls that would push it further than
\* this many pages past total_pages are not explored
MaxOver == 2
\* frames of RAM above the first 2 MiB where page tables are built
PagingFrames == 4
\* task descriptors the heap can hold at one time
MaxTasks == 3
\* pids handed out
MaxPid == 3
\* context switches remembered
MaxSwitches == 6
\* blocks a heap client holds at one time
MaxLive == 2
\* pages allocated in the round trip scenario
MaxRoundTrip == 5

\* stack blocks at this many 8-byte steps after the first heap payload
MaxStackShift == 3

\* entry functions a task may be created with
MaxFuncs == 2

\* contexts that contend for one spin lock
MaxCtx == 4

\* pages one call of malloc may add to the heap
MaxGrow == 3

\* contexts inside the scheduler's routines at the same time
MaxTlkCtx == 2

----------------------------------------------------------------------------
(* Program constants *)

PAGE_SIZE == 4096
LOW_LIMIT == 2097152

Min(S) == CHOOSE x \in S : \A y \in S : x <= y
Max(S) == CHOOSE x \in S : \A y \in S : x >= y

NULL == [k |-> 0, off |-> 0]
Phys(p) == [k |-> 0, off |-> p]
PHYS_TO_VIRT(p) == [k |-> p.k + 1, off |-> p.off]
VIRT_TO_PHYS(v) == [k |-> v.k - 1, off |-> v.off]

\* addr / 4096 < total_pages for a uintptr_t addr.  An address with k # 0 is
\* at least 2^31, so its block number is at least 2^19, above every
\* total_pages of this model.
BlockInRange(addr, total) == addr.k = 0 /\ addr.off \div PAGE_SIZE < total
Block(addr) == addr.off \div PAGE_SIZE

----------------------------------------------------------------------------
(* PMM: src/mm/pmm.c.  The bitmap is kept as pmm.zero_bits, the set of the  *)
(* bit numbers 8*i + j whose bit j of bitmap[i] is 0; every other bit of    *)
(* the bitmap_size bytes is 1.                                              *)

\* bitmap[b / 8] & (1 << (b % 8))
BitSet(st, b) == b \notin st.zero_bits

pmm_init(size) ==
    LET total == size \div PAGE_SIZE
        bsize == (total + 7) \div 8
    IN  [zero_bits |-> {}, bitmap_size |-> bsize,
         total_pages |-> total, used_pages |-> total]

pmm_mark_free(st, addr) ==
    IF BlockInRange(addr, st.total_pages) /\ BitSet(st, Block(addr))
    THEN [st EXCEPT !.zero_bits = @ \cup {Block(addr)},
                    !.used_pages = IF @ > 0 THEN @ - 1 ELSE @]
    ELSE st

pmm_mark_used(st, addr) ==
    IF BlockInRange(addr, st.total_pages) /\ ~BitSet(st, Block(addr))
    THEN [st EXCEPT !.zero_bits = @ \ {Block(addr)}, !.used_pages = @ + 1]
    ELSE st

\* the bits that are 0; a byte bitmap[i] differs from 0xFF exactly when one of
\* its bits 8*i .. 8*i+7 is among them
FreeBits(st) == {b \in st.zero_bits : b < st.bitmap_size * 8}

\* pmm_alloc_page without the test of pmm.c:99
pmm_alloc_pageAnyFrame(st) ==
    IF FreeBits(st) = {}
    THEN [st |-> st, ret |-> NULL]
    ELSE [st |-> [st EXCEPT !.zero_bits = @ \ {Min(FreeBits(st))},
                            !.used_pages = @ + 1],
          ret |-> PHYS_TO_VIRT(Phys(Min(FreeBits(st)) * PAGE_SIZE))]

\* the first free bit, in byte then bit order, whose address is not below 2 MiB
pmm_alloc_page(st) ==
    LET cand == {f \in FreeBits(st) : f * PAGE_SIZE >= LOW_LIMIT}
    IN  IF cand = {}
        THEN [st |-> st, ret |-> NULL]
        ELSE [st |-> [st EXCEPT !.zero_bits = @ \ {Min(cand)},
                                !.used_pages = @ + 1],
              ret |-> PHYS_TO_VIRT(Phys(Min(cand) * PAGE_SIZE))]

\* the inner loop of pmm_alloc_pages: the free bits of byte i counted from
\* bit 0, stopping at the first used bit or when count is reached
Found(st, i, count) ==
    Max({n \in 0 .. 8 : n <= count /\ \A j \in 0 .. (n - 1) : ~BitSet(st, 8 * i + j)})

\* the start address the code computes for a byte that passed the test
StartAddr(i, found) == (i * 8 + (8 - found)) * PAGE_SIZE

pmm_alloc_pages(st, count) ==
    LET bytes == {i \in {f \div 8 : f \in FreeBits(st)} : Found(st, i, count) >= count}
    IN  IF bytes = {}
        THEN [st |-> st, ret |-> NULL]
        ELSE LET i == Min(bytes)
                 start_addr == StartAddr(i, Found(st, i, count))
                 marked == {start_addr \div PAGE_SIZE + k : k \in 0 .. (count - 1)}
             IN  [st |-> [st EXCEPT !.zero_bits = @ \ marked,
                                    !.used_pages = @ + count],
                  ret |-> PHYS_TO_VIRT(Phys(start_addr))]

pmm_free_page(st, addr) == pmm_mark_free(st, addr)

pmm_get_total_kb(st) == st.total_pages * 4
pmm_get_used_kb(st) == st.used_pages * 4
pmm_get_free_kb(st) ==
    IF st.total_pages > st.used_pages THEN (st.total_pages - st.used_pages) * 4 ELSE 0

----------------------------------------------------------------------------
(* Boot: src/kernel/kernel.c.  The Multiboot2 memory map is a sequence of   *)
(* available entries [addr, len]; _kernel_end fixes bitmap_phys.            *)

\* kmain's first pass: the highest end of an available entry
MaxPhysicalAddr(mmap) ==
    LET ends == {mmap[i].addr + mmap[i].len : i \in 1 .. Len(mmap)} \cup {0}
    IN  IF Max(ends) = 0 THEN 536870912 ELSE Max(ends)

BitmapPhys(kernel_phys_end) == ((kernel_phys_end + 4096) \div PAGE_SIZE) * PAGE_SIZE

\* kmain's second pass over one entry: the addresses a = addr, addr + 4096,
\* ... < addr + len that are neither below 2 MiB nor inside [bitmap_phys, b_end)
SeedAddrs(e, bitmap_phys, b_end) ==
    {a \in {e.addr + PAGE_SIZE * n : n \in 0 .. ((e.len + PAGE_SIZE - 1) \div PAGE_SIZE - 1)} :
        ~(a < LOW_LIMIT \/ (a >= bitmap_phys /\ a < b_end))}

\* pmm_mark_free called once for each address of the set (the calls commute:
\* each clears its own bit and counts it once)
RECURSIVE MarkFreeAll(_, _)
MarkFreeAll(st, addrs) ==
    IF addrs = {} THEN st
    ELSE LET a == Min(addrs)
         IN  MarkFreeAll(pmm_mark_free(st, Phys(a)), addrs \ {a})

SeedMap(st, mmap, bitmap_phys, b_end) ==
    MarkFreeAll(st, UNION {SeedAddrs(mmap[i], bitmap_phys, b_end) : i \in 1 .. Len(mmap)})

BEnd(bitmap_phys, max_physical_addr) == bitmap_phys + (max_physical_addr \div 32768) + 4096

kmain_pmm(mmap, kernel_phys_end) ==
    LET max_physical_addr == MaxPhysicalAddr(mmap)
        bitmap_phys == BitmapPhys(kernel_phys_end)
    IN  SeedMap(pmm_init(max_physical_addr), mmap, bitmap_phys,
                BEnd(bitmap_phys, max_physical_addr))

\* the boots explored: RAM of 512 + ExtraFrames frames reported as one entry
\* from 1 MiB (or from 2 MiB) up, and a kernel image that ends below 2 MiB
\* or a few frames above it
RamTop == (512 + ExtraFrames) * PAGE_SIZE
MemoryMaps ==
    { <<[addr |-> 0, len |-> 651264], [addr |-> 1048576, len |-> RamTop - 1048576]>>,
      <<[addr |-> LOW_LIMIT, len |-> RamTop - LOW_LIMIT]>> }
KernelEnds == {1200000, 2121000}

Boot(maps, ends) ==
    \E mmap \in maps, kernel_phys_end \in ends :
        /\ pmm = kmain_pmm(mmap, kernel_phys_end)
        /\ boot = [bitmap_phys |-> BitmapPhys(kernel_phys_end),
                   b_end |-> BEnd(BitmapPhys(kernel_phys_end), MaxPhysicalAddr(mmap))]

----------------------------------------------------------------------------
(* Paging: src/mm/paging.c, and the VMM part of src/mm/pmm.c.  A page-table *)
(* entry is a 64-bit word kept like an address, [k, off]; its low 12 bits   *)
(* (the flags) are off % 4096.  A table is kept as the function from the     *)
(* indices written with a non-zero entry since it was last zero-filled.      *)

P4_TABLE == 1064960
kernel_pml4 == PHYS_TO_VIRT(Phys(P4_TABLE))

RECURSIVE BitOr(_, _)
BitOr(a, b) ==
    IF a = 0 THEN b
    ELSE IF b = 0 THEN a
    ELSE (IF a % 2 = 1 \/ b % 2 = 1 THEN 1 ELSE 0) + 2 * BitOr(a \div 2, b \div 2)

\* x | flags for flags below 4096 (the offset is a multiple of 4096, so the
\* low 12 bits of the word are those of off)
OrFlags(x, flags) == [k |-> x.k, off |-> (x.off \div PAGE_SIZE) * PAGE_SIZE + BitOr(x.off % PAGE_SIZE, flags)]
ENTRY_TO_PHYS(entry) == [k |-> entry.k, off |-> (entry.off \div PAGE_SIZE) * PAGE_SIZE]
Present(entry) == entry.off % 2 = 1
Huge(entry) == (entry.off \div 128) % 2 = 1
AddOff(x, n) == [k |-> x.k, off |-> x.off + n]

\* (virt >> 39) & 0x1FF and so on.  off - k * 2^31 (mod 2^64) has bits 31..63
\* all set when k >= 1; bits 30..38 are those of 512 - 2k + off / 2^30.
Pml4Idx(virt) == IF virt.k = 0 THEN 0 ELSE 511
PdptIdx(virt) == (512 - 2 * virt.k + virt.off \div 1073741824) % 512
PdIdx(virt) == (virt.off \div 2097152) % 512
PtIdx(virt) == (virt.off \div PAGE_SIZE) % 512

ReadEntry(m, tbl, idx) ==
    IF tbl \in DOMAIN m /\ idx \in DOMAIN m[tbl] THEN m[tbl][idx] ELSE NULL
ZeroTable(m, tbl) == (tbl :> <<>>) @@ m
WriteEntry(m, tbl, idx, entry) ==
    LET old == IF tbl \in DOMAIN m THEN m[tbl] ELSE <<>>
    IN  (tbl :> ((idx :> entry) @@ old)) @@ m

\* a store through a pointer that lies twice the offset up
\* (0xFFFFFFFF00000000 + x) is outside the higher-half window: it works if
\* the boot tables happen to map it and page-faults otherwise
Faults(h, ptr) == ptr.k >= 2 /\ ~h.dbl_mapped

\* one level of paging_map's walk: if tbl[idx] is not present, take a page
\* from the PMM, zero it through PHYS_TO_VIRT and link it with flags 0x07.
\* S is [pmm, mem, next, fault].
EnsureLevel(S, h, tbl, idx) ==
    IF S.fault \/ Present(ReadEntry(S.mem, tbl, idx)) THEN S
    ELSE LET r == pmm_alloc_page(S.pmm)
             new_phys == r.ret
             t == PHYS_TO_VIRT(new_phys)
         IN  IF Faults(h, t)
             THEN [S EXCEPT !.pmm = r.st, !.fault = TRUE]
             ELSE [S EXCEPT !.pmm = r.st,
                            !.mem = WriteEntry(ZeroTable(S.mem, t), tbl, idx, OrFlags(new_phys, 7))]

NextTable(S, tbl, idx) == PHYS_TO_VIRT(ENTRY_TO_PHYS(ReadEntry(S.mem, tbl, idx)))

\* the walk's position: the state and the table the next index applies to
AtTable(S, tbl) == [S |-> S, tbl |-> tbl]
Descend(W, h, idx) ==
    AtTable(EnsureLevel(W.S, h, W.tbl, idx),
            NextTable(EnsureLevel(W.S, h, W.tbl, idx), W.tbl, idx))

\* pt[pt_idx] = phys | flags
WriteLeaf(W, h, virt, phys, flags) ==
    IF W.S.fault THEN W.S
    ELSE IF Faults(h, W.tbl) THEN [W.S EXCEPT !.fault = TRUE]
    ELSE [W.S EXCEPT !.mem = WriteEntry(W.S.mem, W.tbl, PtIdx(virt), OrFlags(phys, flags))]

paging_map(S, h, virt, phys, flags) ==
    WriteLeaf(Descend(Descend(Descend(AtTable(S, kernel_pml4), h, Pml4Idx(virt)),
                              h, PdptIdx(virt)),
                      h, PdIdx(virt)),
              h, virt, phys, flags)

vmm_map(S, h, virt, phys, flags) == paging_map(S, h, virt, phys, flags)

RECURSIVE MapPages(_, _, _, _, _, _, _)
MapPages(S, h, virt, phys, flags, i, pages) ==
    IF i >= pages THEN S
    ELSE MapPages(paging_map(S, h, AddOff(virt, i * PAGE_SIZE), AddOff(phys, i * PAGE_SIZE), flags),
                  h, virt, phys, flags, i + 1, pages)

\* vmm_alloc's mapping loop and the advance of next_virt_addr, once
\* pmm_alloc_pages returned r
MapAllocated(S, h, r, pages, flags) ==
    IF r.ret = NULL
    THEN [S |-> S, ret |-> NULL]
    ELSE [S |-> [MapPages([S EXCEPT !.pmm = r.st], h, S.next, r.ret, flags, 0, pages)
                    EXCEPT !.next = AddOff(S.next, pages * PAGE_SIZE)],
          ret |-> S.next]

\* vmm_alloc(pages, flags): [S, ret]
vmm_alloc(S, h, pages, flags) ==
    MapAllocated(S, h, pmm_alloc_pages(S.pmm, pages), pages, flags)

vmm_get_phys(m, virtual_addr) ==
    LET pml4e == ReadEntry(m, kernel_pml4, Pml4Idx(virtual_addr))
        pdpt == PHYS_TO_VIRT(ENTRY_TO_PHYS(pml4e))
        pdpte == ReadEntry(m, pdpt, PdptIdx(virtual_addr))
        pd == PHYS_TO_VIRT(ENTRY_TO_PHYS(pdpte))
        pde == ReadEntry(m, pd, PdIdx(virtual_addr))
        ptab == PHYS_TO_VIRT(ENTRY_TO_PHYS(pde))
        pte == ReadEntry(m, ptab, PtIdx(virtual_addr))
    IN  IF ~Present(pml4e) THEN NULL
        ELSE IF ~Present(pdpte) THEN NULL
        ELSE IF Huge(pdpte) THEN AddOff(ENTRY_TO_PHYS(pdpte), virtual_addr.off % 1073741824)
        ELSE IF ~Present(pde) THEN NULL
        ELSE IF Huge(pde) THEN AddOff(ENTRY_TO_PHYS(pde), virtual_addr.off % 2097152)
        ELSE IF ~Present(pte) THEN NULL
        ELSE AddOff(ENTRY_TO_PHYS(pte), virtual_addr.off % PAGE_SIZE)

\* the tables the boot code leaves behind (boot.s is not part of the
\* sources): none of the entries used here present, or PML4[511] pointing to
\* a boot PDPT whose entry 510 maps the first GiB with a huge page
P3_TABLE == 1069056
BootTables ==
    { (kernel_pml4 :> <<>>),
      (kernel_pml4 :> (511 :> OrFlags(Phys(P3_TABLE), 3)))
          @@ (PHYS_TO_VIRT(Phys(P3_TABLE)) :> (510 :> OrFlags(Phys(0), 131))) }
VMM_BASE == [k |-> 1, off |-> 1073741824]

PagingInit ==
    /\ mem \in BootTables
    /\ next_virt_addr = VMM_BASE
    /\ hw \in [dbl_mapped : BOOLEAN, halted : {FALSE}]
    /\ pg = <<>>

PagingIdle ==
    /\ mem = (kernel_pml4 :> <<>>)
    /\ next_virt_addr = VMM_BASE
    /\ hw = [dbl_mapped |-> TRUE, halted |-> FALSE]
    /\ pg = <<>>

BootInit == Boot(MemoryMaps, KernelEnds)

----------------------------------------------------------------------------
(* Kernel heap: src/unnamed/part_001 (heap.c).  heap.nodes maps the address *)
(* of every header of the list to its fields; a header that coalescing      *)
(* absorbs becomes payload and leaves the map.                              *)

HEAP_MAGIC == 305419896
\* sizeof(heap_node_t): packed uint32_t + uint64_t + pointer + int
HEADER_SIZE == 24
\* the static heap_area[4096], page aligned, inside the kernel image
HEAP_AREA == 1118208
HEAP_AREA_SIZE == 4096

NewNodeNoMagic(size, next) == [magic |-> 0, size |-> size, next |-> next, free |-> 1]
NewNode(size, next) == [magic |-> HEAP_MAGIC, size |-> size, next |-> next, free |-> 1]

heap_init ==
    [head |-> PHYS_TO_VIRT(Phys(HEAP_AREA)),
     nodes |-> (PHYS_TO_VIRT(Phys(HEAP_AREA)) :> NewNode(HEAP_AREA_SIZE - HEADER_SIZE, NULL)),
     grown |-> {}]

\* (size + 7) & ~7
RoundUp8(size) == ((size + 7) \div 8) * 8

SplitAddrNoHeader(curr, size) == AddOff(curr, size)
\* (uint8_t *)curr + sizeof(heap_node_t) + size
SplitAddr(curr, size) == AddOff(curr, HEADER_SIZE + size)
PayloadOf(curr) == AddOff(curr, HEADER_SIZE)

\* malloc's "if (curr->size > size + sizeof(heap_node_t) + 32)" block, then
\* curr->free = 0
Take(H, curr, size) ==
    LET n == H.nodes[curr]
    IN  IF n.size > size + HEADER_SIZE + 32
        THEN [H EXCEPT !.nodes =
                 (SplitAddr(curr, size) :> NewNode(n.size - size - HEADER_SIZE, n.next))
                 @@ [@ EXCEPT ![curr] = [n EXCEPT !.size = size,
                                                  !.next = SplitAddr(curr, size),
                                                  !.free = 0]]]
        ELSE [H EXCEPT !.nodes[curr].free = 0]

\* malloc's while loop from curr on; the result is [H, S, ret].  Grow is the
\* "if (!curr->next)" block, v being what vmm_alloc(4096, 0x03) returned
RECURSIVE MallocWalk(_, _, _, _, _)
RECURSIVE Grow(_, _, _, _, _)
Grow(H, v, h, size, curr) ==
    IF v.ret = NULL \/ v.S.fault
    THEN [H |-> H, S |-> v.S, ret |-> NULL]
    ELSE MallocWalk([H EXCEPT !.nodes = (v.ret :> NewNode(4096 - HEADER_SIZE, NULL))
                                  @@ [@ EXCEPT ![curr].next = v.ret],
                              !.grown = @ \cup {v.ret}],
                    v.S, h, size, v.ret)

MallocWalk(H, S, h, size, curr) ==
    IF curr = NULL THEN [H |-> H, S |-> S, ret |-> NULL]
    ELSE IF H.nodes[curr].free # 0 /\ H.nodes[curr].size >= size
         THEN [H |-> Take(H, curr, size), S |-> S, ret |-> PayloadOf(curr)]
         ELSE IF H.nodes[curr].next = NULL
              THEN Grow(H, vmm_alloc(S, h, 4096, 3), h, size, curr)
              ELSE MallocWalk(H, S, h, size, H.nodes[curr].next)

mallocSkipHead(H, S, h, size) ==
    IF size = 0 THEN [H |-> H, S |-> S, ret |-> NULL]
    ELSE IF H.head = NULL THEN [H |-> H, S |-> S, ret |-> NULL]
    ELSE MallocWalk(H, S, h, RoundUp8(size),
                    IF H.nodes[H.head].next = NULL THEN H.head
                    ELSE H.nodes[H.head].next)
malloc(H, S, h, size) ==
    IF size = 0 THEN [H |-> H, S |-> S, ret |-> NULL]
    ELSE IF H.head = NULL THEN [H |-> H, S |-> S, ret |-> NULL]
    ELSE MallocWalk(H, S, h, RoundUp8(size), H.head)

\* free's coalescing pass from temp on
RECURSIVE Coalesce(_, _)
Coalesce(H, temp) ==
    IF temp = NULL THEN H
    ELSE LET n == H.nodes[temp]
         IN  IF n.free # 0 /\ n.next # NULL /\ H.nodes[n.next].free # 0
             THEN Coalesce(
                      [H EXCEPT !.nodes =
                          [a \in DOMAIN H.nodes \ {n.next} |->
                              IF a = temp
                              THEN [n EXCEPT !.size = n.size + HEADER_SIZE + H.nodes[n.next].size,
                                             !.next = H.nodes[n.next].next]
                              ELSE H.nodes[a]]],
                      temp)
             ELSE Coalesce(H, n.next)

\* free(ptr) for a pointer whose header is one of the list's
freeUnchecked(H, ptr) ==
    IF ptr = NULL THEN H
    ELSE LET node == AddOff(ptr, 0 - HEADER_SIZE)
         IN  IF node \in DOMAIN H.nodes
             THEN Coalesce([H EXCEPT !.nodes[node].free = 1], H.head)
             ELSE Coalesce([H EXCEPT !.nodes = (node :> NewNodeNoMagic(0, NULL)) @@ @],
                           H.head)
free(H, ptr) ==
    IF ptr = NULL THEN H
    ELSE LET node == AddOff(ptr, 0 - HEADER_SIZE)
         IN  IF node \notin DOMAIN H.nodes \/ H.nodes[node].magic # HEAP_MAGIC
             THEN H
             ELSE Coalesce([H EXCEPT !.nodes[node].free = 1], H.head)

\* the headers reachable from head, in list order
RECURSIVE ListFrom(_, _)
ListFrom(H, curr) ==
    IF curr = NULL \/ curr \notin DOMAIN H.nodes THEN <<>>
    ELSE <<curr>> \o ListFrom(H, H.nodes[curr].next)

HeapInit ==
    /\ heap = heap_init
    /\ heap_hist = [live |-> {}, op |-> "init", size |-> 0, ret |-> NULL, pmm_free |-> 0]

----------------------------------------------------------------------------
(* Scheduler: src/kernel/task/task.c.  A task_t pointer is the number of    *)
(* the descriptor it points to, 0 for NULL; task.tasks holds the fields of  *)
(* every descriptor, alloc telling whether the heap block is still          *)
(* allocated.  The operators take and return the whole record T.            *)

\* schedule every 25 ticks
SLICE_TICKS == 25

NoTask == 0
BlankTask == [alloc |-> FALSE, pid |-> 0, state |-> "none", next |-> NoTask,
              prev |-> NoTask, stack |-> 0]

scheduler_init(slots, low_mapped) ==
    [tasks |-> [t \in slots |-> BlankTask],
     current_task |-> NoTask, runqueue |-> NoTask, next_pid |-> 1,
     need_schedule |-> 0, tasks_exist |-> 0, counter |-> 0,
     low_mapped |-> low_mapped, halted |-> FALSE,
     locks |-> {}, log |-> <<>>]

Halts(T) == T.halted

\* spinlock_acquire / spinlock_release as the one running context sees
\* them: T.locks holds the locks whose word is 1; acquiring a lock that is
\* already taken spins for ever
Acquire(T, l) ==
    IF Halts(T) THEN T
    ELSE IF l \in T.locks THEN [T EXCEPT !.halted = TRUE]
    ELSE [T EXCEPT !.locks = @ \cup {l}]

Release(T, l) == IF Halts(T) THEN T ELSE [T EXCEPT !.locks = @ \ {l}]

\* the calls of the current operation that leave the scheduler's data: a
\* context switch, a free; each noted with the locks held at that point
Emit(T, ev, t) ==
    IF Halts(T) THEN T
    ELSE [T EXCEPT !.log = Append(@, [ev |-> ev, t |-> t, held |-> T.locks])]

\* entry into an operation
Call(T) == [T EXCEPT !.log = <<>>]

\* add_task_to_runqueue's else branch, the four pointer stores: link task
\* between runqueue->prev and runqueue
LinkBefore(T, t) ==
    [T EXCEPT !.tasks = [a \in DOMAIN T.tasks |->
                            IF a = t
                            THEN [T.tasks[a] EXCEPT !.next = T.runqueue,
                                                    !.prev = T.tasks[T.runqueue].prev]
                            ELSE IF a = T.runqueue /\ a = T.tasks[T.runqueue].prev
                            THEN [T.tasks[a] EXCEPT !.next = t, !.prev = t]
                            ELSE IF a = T.runqueue
                            THEN [T.tasks[a] EXCEPT !.prev = t]
                            ELSE IF a = T.tasks[T.runqueue].prev
                            THEN [T.tasks[a] EXCEPT !.next = t]
                            ELSE T.tasks[a]]]

AddLinkTail(T, t) == LinkBefore(T, t)
\* ... and runqueue = task: the new task becomes the head
AddLink(T, t) == [LinkBefore(T, t) EXCEPT !.runqueue = t]

AddLocked(T, t) ==
    IF Halts(T) THEN T
    ELSE [(IF T.runqueue = NoTask
           THEN [T EXCEPT !.runqueue = t, !.tasks[t].next = t, !.tasks[t].prev = t]
           ELSE AddLink(T, t))
          EXCEPT !.tasks_exist = 1]

add_task_to_runqueue(T, t) ==
    Release(AddLocked(Acquire(T, "runqueue_lock"), t), "runqueue_lock")

\* the unlinking without the store to task->next->prev
UnlinkForwardOnly(T, t) ==
    [T EXCEPT !.tasks = [a \in DOMAIN T.tasks |->
                            IF a = t
                            THEN [T.tasks[a] EXCEPT !.next = NoTask, !.prev = NoTask]
                            ELSE IF a = T.tasks[t].prev
                            THEN [T.tasks[a] EXCEPT !.next = T.tasks[t].next]
                            ELSE T.tasks[a]],
              !.runqueue = IF T.runqueue = t THEN T.tasks[t].next ELSE T.runqueue]

\* task->prev->next = task->next; task->next->prev = task->prev;
\* if (runqueue == task) runqueue = task->next; task->next = task->prev = NULL
Unlink(T, t) ==
    [T EXCEPT !.tasks = [a \in DOMAIN T.tasks |->
                            IF a = t
                            THEN [T.tasks[a] EXCEPT !.next = NoTask, !.prev = NoTask]
                            ELSE IF a = T.tasks[t].prev /\ a = T.tasks[t].next
                            THEN [T.tasks[a] EXCEPT !.next = T.tasks[t].next,
                                                    !.prev = T.tasks[t].prev]
                            ELSE IF a = T.tasks[t].prev
                            THEN [T.tasks[a] EXCEPT !.next = T.tasks[t].next]
                            ELSE IF a = T.tasks[t].next
                            THEN [T.tasks[a] EXCEPT !.prev = T.tasks[t].prev]
                            ELSE T.tasks[a]],
              !.runqueue = IF T.runqueue = t THEN T.tasks[t].next ELSE T.runqueue]

\* a task that is not linked has next = prev = NULL: unlinking it stores
\* through null pointers, which faults or, where page 0 is mapped, only
\* scribbles over low memory
RemoveLocked(T, t) ==
    IF Halts(T) THEN T
    ELSE IF t = NoTask \/ T.runqueue = NoTask THEN T
    ELSE IF T.tasks[t].next = t
    THEN [T EXCEPT !.runqueue = NoTask, !.tasks_exist = 0,
                   !.tasks[t].next = NoTask, !.tasks[t].prev = NoTask]
    ELSE IF T.tasks[t].prev = NoTask \/ T.tasks[t].next = NoTask
    THEN IF T.low_mapped THEN T ELSE [T EXCEPT !.halted = TRUE]
    ELSE Unlink(T, t)

remove_task_from_runqueue(T, t) ==
    Release(RemoveLocked(Acquire(T, "runqueue_lock"), t), "runqueue_lock")

\* task_create, memory being what malloc(sizeof(task_t)) returned and
\* stack_ok whether malloc(8192) returned a block
task_create(T, memory, stack_ok) ==
    IF memory = NoTask THEN [T |-> T, ret |-> NoTask]
    ELSE IF ~stack_ok
    THEN [T |-> Emit([T EXCEPT !.next_pid = @ + 1,
                               !.tasks[memory] = [BlankTask EXCEPT !.pid = T.next_pid,
                                                                   !.state = "TASK_RUNNING"]],
                     "free_task", memory),
          ret |-> NoTask]
    ELSE [T |-> add_task_to_runqueue(
                   [T EXCEPT !.next_pid = @ + 1,
                             !.tasks[memory] = [alloc |-> TRUE, pid |-> T.next_pid,
                                                state |-> "TASK_RUNNING",
                                                next |-> NoTask, prev |-> NoTask,
                                                stack |-> memory]],
                   memory),
          ret |-> memory]

\* the task schedule() picks: runqueue if there is no current task, else
\* current_task->next
PickNext(T) ==
    IF T.current_task = NoTask THEN T.runqueue ELSE T.tasks[T.current_task].next

Unlock2(T) == Release(Release(T, "current_task_lock"), "runqueue_lock")

\* switch_to(&old_current->context, &next->context), or the jump into the
\* first task
ContextSwitch(T, old_current) ==
    Emit(T, IF old_current # NoTask THEN "switch_to" ELSE "jump", T.current_task)

SwitchLocked(T, old_current) ==
    Unlock2(ContextSwitch([T EXCEPT !.current_task = PickNext(T)], old_current))
\* schedule's "if (next && next != current_task)" block
Switch(T, old_current) ==
    ContextSwitch(Unlock2([T EXCEPT !.current_task = PickNext(T)]), old_current)

ScheduleLocked(T) ==
    IF Halts(T) THEN T
    ELSE IF T.runqueue = NoTask THEN Unlock2(T)
    ELSE IF PickNext(T) # NoTask /\ PickNext(T) # T.current_task
    THEN Switch(T, T.current_task)
    ELSE Unlock2(T)

schedule(T) ==
    ScheduleLocked(Acquire(Acquire(T, "runqueue_lock"), "current_task_lock"))

MarkZombie(T, code) ==
    [T EXCEPT !.tasks[T.current_task].state = "TASK_ZOMBIE"]

ExitLocked(T, code) ==
    IF Halts(T) THEN T
    ELSE IF T.current_task = NoTask THEN Release(T, "current_task_lock")
    ELSE schedule(remove_task_from_runqueue(
                      Release(MarkZombie(T, code), "current_task_lock"),
                      T.current_task))

task_exit(T, code) == ExitLocked(Acquire(T, "current_task_lock"), code)

\* scheduler_tick without the test of tasks_exist
scheduler_tickAlways(T) ==
    IF T.counter + 1 >= SLICE_TICKS
    THEN [T EXCEPT !.counter = 0, !.need_schedule = 1]
    ELSE [T EXCEPT !.counter = @ + 1]

scheduler_tick(T) ==
    IF T.tasks_exist = 0 THEN T
    ELSE IF T.counter + 1 >= SLICE_TICKS
    THEN [T EXCEPT !.counter = 0, !.need_schedule = 1]
    ELSE [T EXCEPT !.counter = @ + 1]

yield(T) ==
    IF T.need_schedule # 0 THEN schedule([T EXCEPT !.need_schedule = 0]) ELSE T

\* the members of the ready queue in list order, from start on, at most n
RECURSIVE RingFrom(_, _, _)
RingFrom(T, start, n) ==
    IF start = NoTask \/ n = 0 THEN <<>>
    ELSE <<start>> \o (IF T.tasks[start].next = T.runqueue THEN <<>>
                       ELSE RingFrom(T, T.tasks[start].next, n - 1))

Ring(T) == RingFrom(T, T.runqueue, Cardinality(DOMAIN T.tasks))

\* kill_task's search loop
FindInRing(T, pid) ==
    IF \E i \in 1 .. Len(Ring(T)) : T.tasks[Ring(T)[i]].pid = pid
    THEN Ring(T)[CHOOSE i \in 1 .. Len(Ring(T)) :
                    /\ T.tasks[Ring(T)[i]].pid = pid
                    /\ \A j \in 1 .. i - 1 : T.tasks[Ring(T)[j]].pid # pid]
    ELSE NoTask

\* kill_task: target->state = TASK_ZOMBIE and the unlinking
UnlinkTarget(T, target) ==
    [(IF T.tasks[target].next = target
      THEN [T EXCEPT !.runqueue = NoTask,
                     !.tasks[target].next = NoTask, !.tasks[target].prev = NoTask]
      ELSE Unlink(T, target))
     EXCEPT !.tasks[target].state = "TASK_ZOMBIE"]

\* kill_task: free(target->stack) if it is not null, then free(target)
FreeTarget(T, target) ==
    [Emit(IF T.tasks[target].stack # 0 THEN Emit(T, "free_stack", target) ELSE T,
          "free_task", target)
     EXCEPT !.tasks[target].alloc = FALSE]

\* kill_task's removal of target and the two free calls
KillTarget(T, target) ==
    FreeTarget(Release(UnlinkTarget(T, target), "runqueue_lock"), target)

KillLocked(T, pid) ==
    IF Halts(T) THEN [T |-> T, ret |-> -1]
    ELSE IF FindInRing(T, pid) = NoTask
    THEN [T |-> Release(T, "runqueue_lock"), ret |-> -1]
    ELSE IF FindInRing(T, pid) = T.current_task
    THEN [T |-> Release(T, "runqueue_lock"), ret |-> -2]
    ELSE [T |-> KillTarget(T, FindInRing(T, pid)), ret |-> 0]

kill_task(T, pid) ==
    IF pid <= 0 THEN [T |-> T, ret |-> -1]
    ELSE KillLocked(Acquire(T, "runqueue_lock"), pid)

----------------------------------------------------------------------------
(* The kernel stack of a new task and the first switch into it *)

STACK_SIZE == 8192
WORD == 8
CALLEE_SAVED == 6

\* task_create's stack set-up: the top of the block rounded down to 16
\* bytes, six zero words pushed below it, and the context that records the
\* resulting stack pointer and the entry function
InitialStack(stack, func) ==
    LET top == ((stack + STACK_SIZE) \div 16) * 16
        sp == top - CALLEE_SAVED * WORD
    IN  [stack |-> stack,
         func |-> func,
         words |-> [a \in {top - WORD * i : i \in 1 .. CALLEE_SAVED} |-> 0],
         context |-> [rsp |-> sp, rip |-> func]]

\* a 64-bit load; a word nothing has written holds whatever was there
ReadWord(words, a, junk) == IF a \in DOMAIN words THEN words[a] ELSE junk

\* switch_to(prev_ctx, next_ctx): push the callee-saved registers, store the
\* stack pointer into *prev_ctx, load it from *next_ctx, pop the callee-saved
\* registers and return
switch_to(cpu, words, next_ctx, junk) ==
    LET saved == cpu.rsp - CALLEE_SAVED * WORD
        pushed == [a \in {cpu.rsp - WORD * i : i \in 1 .. CALLEE_SAVED} |-> 0]
        all == pushed @@ words
        sp == next_ctx.rsp
        ret_at == sp + CALLEE_SAVED * WORD
    IN  [prev_rsp |-> saved,
         words |-> all,
         regs |-> [i \in 1 .. CALLEE_SAVED |->
                      ReadWord(all, sp + WORD * (i - 1), junk)],
         ret_at |-> ret_at,
         cpu |-> [rsp |-> ret_at + WORD, rip |-> ReadWord(all, ret_at, junk)]]

\* schedule's path for the very first task: load the stack pointer and jump
\* to the saved instruction pointer
FirstTaskJump(ctx) == [rsp |-> ctx.rsp, rip |-> ctx.rip]

NoStack == [stack |-> 0, func |-> 0, words |-> <<>>, context |-> [rsp |-> 0, rip |-> 0]]

StkIdle ==
    stk = [phase |-> "none", t |-> NoStack, cpu |-> [rsp |-> 0, rip |-> 0],
           ret_at |-> 0, regs |-> <<>>, prev_rsp |-> 0]

----------------------------------------------------------------------------
(* Spin locks *)

\* lock cmpxchgl desired, word with eax = expected: the word takes desired
\* when it equals eax, and eax always ends up holding the word's old value
cmpxchgStore(word, expected, desired) == [word |-> desired, eax |-> expected]
cmpxchg(word, expected, desired) ==
    IF word = expected THEN [word |-> desired, eax |-> expected]
                       ELSE [word |-> word, eax |-> word]

\* one iteration of spinlock_acquire's loop: done is the test expected == 0
AcquireIter(word) ==
    LET r == cmpxchg(word, 0, 1)
    IN  [word |-> r.word, done |-> r.eax = 0]

spinlock_try_acquire(word) ==
    LET r == cmpxchg(word, 0, 1)
    IN  [word |-> r.word, ret |-> IF r.eax = 0 THEN 1 ELSE 0]

\* movl $0, lock
spinlock_release(word) == 0

----------------------------------------------------------------------------
(* The PIC, its lock and the interrupt path on one CPU *)

IRQ_TIMER == 0
IRQ_KEYBOARD == 1
IRQS == {IRQ_TIMER, IRQ_KEYBOARD}

\* the routines that take pic_lock, as the steps they execute in order
pic_remap == <<"acquire", "remap", "release">>
pic_irq_mask_all == <<"acquire", "mask_all", "release">>
pic_irq_enable_held == <<"acquire", "unmask">>
pic_irq_enable == <<"acquire", "unmask", "release">>
pic_send_eoi == <<"acquire", "eoi", "release">>
keyboard_handler == <<"scancode">> \o pic_send_eoi
generic_handler == pic_send_eoi
wait_for_keypress == <<"clear_flag", "hlt">>

Body(fn) ==
    CASE fn = "pic_remap" -> pic_remap
      [] fn = "pic_irq_mask_all" -> pic_irq_mask_all
      [] fn = "pic_irq_enable" -> pic_irq_enable
      [] fn = "keyboard_handler" -> keyboard_handler
      [] fn = "generic_handler" -> generic_handler
      [] fn = "sti" -> <<"sti">>
      [] OTHER -> wait_for_keypress

\* idt_init calls pic_init, which remaps the PIC and masks every line
idt_init == <<"pic_remap", "pic_irq_mask_all">>
\* the rest of the bring-up: the keyboard line is unmasked, then interrupts
\* are enabled and the CPU idles
BootTail == <<"pic_irq_enable", "sti">>
BootCalls == idt_init \o BootTail

Frame(fn, irqno) == [fn |-> fn, i |-> 1, irqno |-> irqno, holds |-> FALSE]

\* the state at the entry of kmain
IrqReset ==
    [pic_lock |-> 0, rflags_if |-> FALSE, mask |-> {}, irr |-> {}, isr |-> {},
     key_pressed_flag |-> 0, shift_pressed |-> 0,
     frames |-> <<Frame(BootCalls[1], IRQ_KEYBOARD)>>, boot |-> 1]

Top(I) == I.frames[Len(I.frames)]
CurrentOp(I) == Body(Top(I).fn)[Top(I).i]

\* the running routine has executed its last step: a handler returns with
\* iretq, which restores the interrupt flag; the boot context goes on to its
\* next call, still holding what it has not released, and ends in the idle
\* loop
Return(I) ==
    IF Len(I.frames) > 1
    THEN [I EXCEPT !.frames = SubSeq(I.frames, 1, Len(I.frames) - 1), !.rflags_if = TRUE]
    ELSE LET n == IF I.boot <= Len(BootCalls) THEN I.boot + 1 ELSE I.boot
         IN  [I EXCEPT !.boot = n,
                       !.frames = <<[Frame(IF n <= Len(BootCalls) THEN BootCalls[n]
                                           ELSE "wait_for_keypress", IRQ_KEYBOARD)
                                        EXCEPT !.holds = I.frames[1].holds]>>]

Advance(I) ==
    IF Top(I).i = Len(Body(Top(I).fn)) THEN Return(I)
    ELSE [I EXCEPT !.frames[Len(I.frames)].i = @ + 1]

\* keyboard_handler's decoding of one scancode
Scancode(I, code) ==
    CASE code = "shift_down" -> [I EXCEPT !.shift_pressed = 1]
      [] code = "shift_up" -> [I EXCEPT !.shift_pressed = 0]
      [] code = "press" -> [I EXCEPT !.key_pressed_flag = 1]
      [] OTHER -> I

\* one step of the running routine
Exec(I, code) ==
    LET op == CurrentOp(I)
        n == Len(I.frames)
    IN  CASE op = "acquire" ->
                 LET r == AcquireIter(I.pic_lock)
                 IN  IF r.done
                     THEN Advance([I EXCEPT !.pic_lock = r.word,
                                            !.frames[n].holds = TRUE])
                     ELSE I
          [] op = "release" ->
                 Advance([I EXCEPT !.pic_lock = spinlock_release(I.pic_lock),
                                   !.frames[n].holds = FALSE])
          [] op = "remap" -> Advance(I)
          [] op = "mask_all" -> Advance([I EXCEPT !.mask = IRQS])
          [] op = "unmask" -> Advance([I EXCEPT !.mask = @ \ {Top(I).irqno}])
          [] op = "eoi" -> Advance([I EXCEPT !.isr = {}])
          [] op = "scancode" -> Advance(Scancode(I, code))
          [] op = "sti" -> Advance([I EXCEPT !.rflags_if = TRUE])
          [] op = "clear_flag" -> Advance([I EXCEPT !.key_pressed_flag = 0])
          [] OTHER -> IF I.key_pressed_flag # 0 THEN Advance(I) ELSE I

\* the CPU takes an interrupt through a 0x8E gate: the handler starts with
\* interrupts disabled
Interrupt(I, irqno) ==
    [I EXCEPT !.frames = Append(@, Frame(IF irqno = IRQ_KEYBOARD
                                         THEN "keyboard_handler"
                                         ELSE "generic_handler", irqno)),
              !.rflags_if = FALSE, !.irr = @ \ {irqno}, !.isr = {irqno}]

----------------------------------------------------------------------------
(* Locks of the memory subsystem: which lock each routine takes, and under *)
(* which locks it calls the layer below.  Decisions that depend on data (a  *)
(* block fits, the PMM has pages, a page table is missing) are arguments.   *)

Range(q) == {q[i] : i \in DOMAIN q}

LkAcquire(L, l) ==
    [L EXCEPT !.held = Append(@, l),
              !.log = Append(@, [lock |-> l, held |-> Range(L.held)])]

LkReleaseNone(L, l) == L
LkRelease(L, l) ==
    [L EXCEPT !.held = SelectSeq(L.held, LAMBDA x : x # l)]

\* pmm_mark_free, pmm_mark_used, pmm_alloc_page and pmm_alloc_pages: the
\* routine runs between an acquire and a release of pmm_lock
PmmLocked(L) == LkRelease(LkAcquire(L, "pmm_lock"), "pmm_lock")

\* paging_map takes no lock of its own; it calls pmm_alloc_page once for each
\* missing table level
RECURSIVE PagingMapLocks(_, _)
PagingMapLocks(L, tables) ==
    IF tables = 0 THEN L ELSE PagingMapLocks(PmmLocked(L), tables - 1)

\* vmm_alloc(1, flags): pmm_alloc_pages and paging_map run under vmm_lock
VmmAllocLocks(L, ok, tables) ==
    LET a == PmmLocked(LkAcquire(L, "vmm_lock"))
    IN  IF ~ok THEN LkRelease(a, "vmm_lock")
        ELSE LkRelease(PagingMapLocks(a, tables), "vmm_lock")

\* the walk of malloc under heap_lock: each entry of grows is one call of
\* vmm_alloc at the end of the list; a failed call ends the walk
RECURSIVE MallocWalkLocks(_, _)
MallocWalkLocks(L, grows) ==
    IF grows = <<>> THEN L
    ELSE LET g == Head(grows)
             a == VmmAllocLocks(L, g.ok, g.tables)
         IN  IF g.ok THEN MallocWalkLocks(a, Tail(grows)) ELSE a

MallocLocks(L, size, grows) ==
    IF size = 0 THEN L
    ELSE LkRelease(MallocWalkLocks(LkAcquire(L, "heap_lock"), grows), "heap_lock")

FreeLocks(L, ptr) ==
    IF ptr = 0 THEN L
    ELSE LkRelease(LkAcquire(L, "heap_lock"), "heap_lock")

----------------------------------------------------------------------------
(* The two scheduler locks as several contexts see them: each routine of   *)
(* task.c as the acquire and release steps it executes in order.           *)

Acq(l) == [a |-> "acquire", l |-> l]
Rel(l) == [a |-> "release", l |-> l]

RunqueueLocks == <<Acq("runqueue_lock"), Rel("runqueue_lock")>>
CurrentLocks == <<Acq("current_task_lock"), Rel("current_task_lock")>>
\* schedule: both locks, the queue's first, released in reverse order on
\* every path
ScheduleLocksReversed ==
    <<Acq("current_task_lock"), Acq("runqueue_lock"),
      Rel("runqueue_lock"), Rel("current_task_lock")>>
ScheduleLocks ==
    <<Acq("runqueue_lock"), Acq("current_task_lock"),
      Rel("current_task_lock"), Rel("runqueue_lock")>>
\* task_exit: current_task_lock alone, then remove_task_from_runqueue, then
\* schedule; with no current task it returns after the first release
TaskExitLocks(has_current) ==
    IF has_current THEN CurrentLocks \o RunqueueLocks \o ScheduleLocks
    ELSE CurrentLocks

LockSteps(op, has_current) ==
    CASE op = "schedule" -> ScheduleLocks
      [] op = "task_exit" -> TaskExitLocks(has_current)
      [] op \in {"kill_task", "find_task_by_pid", "add_task_to_runqueue"} ->
             RunqueueLocks
      [] OTHER -> CurrentLocks

TlkIdleCtx == [op |-> "none", prog |-> <<>>, holds |-> <<>>]

\* one step of a context: an acquire is one iteration of spinlock_acquire's
\* loop and leaves the context where it is when the lock is taken
TlkStep(K, c) ==
    LET st == Head(K.ctx[c].prog)
        r == AcquireIter(K.word[st.l])
    IN  IF st.a = "acquire"
        THEN IF r.done
             THEN [K EXCEPT !.word[st.l] = r.word,
                            !.ctx[c].prog = Tail(@),
                            !.ctx[c].holds = Append(@, st.l)]
             ELSE K
        ELSE [K EXCEPT !.word[st.l] = spinlock_release(@),
                       !.ctx[c].prog = Tail(@),
                       !.ctx[c].holds = SelectSeq(@, LAMBDA x : x # st.l)]

TlkReset ==
    [word |-> [l \in {"runqueue_lock", "current_task_lock"} |-> 0],
     ctx |-> [c \in 1 .. MaxTlkCtx |-> TlkIdleCtx]]

----------------------------------------------------------------------------
(* The PS/2 keyboard driver: scan code translation and the one-slot mailbox *)

\* the tables as ASCII codes; entry c + 1 belongs to scan code c
scancode_to_ascii ==
    <<0, 27, 49, 50, 51, 52, 53, 54, 55, 56, 57, 48, 45, 61, 8,
      9, 113, 119, 101, 114, 116, 121, 117, 105, 111, 112, 91, 93, 10,
      0, 97, 115, 100, 102, 103, 104, 106, 107, 108, 59, 39, 96, 0,
      92, 122, 120, 99, 118, 98, 110, 109, 44, 46, 47, 0, 42, 0, 32>>
scancode_to_ascii_shift ==
    <<0, 27, 33, 64, 35, 36, 37, 94, 38, 42, 40, 41, 95, 43, 8,
      9, 81, 87, 69, 82, 84, 89, 85, 73, 79, 80, 123, 125, 10,
      0, 65, 83, 68, 70, 71, 72, 74, 75, 76, 58, 34, 126, 0,
      124, 90, 88, 67, 86, 66, 78, 77, 60, 62, 63, 0, 42, 0, 32>>

LSHIFT_DOWN == 42
RSHIFT_DOWN == 54
LSHIFT_UP == 170
RSHIFT_UP == 182
RELEASE_BIT == 128
SC_BACKSPACE == 14
SC_ENTER == 28
SC_LEFT == 75
SC_RIGHT == 77

\* the switch of keyboard_handler: the byte a key-down scan code stands for,
\* 0 when it stands for none
KeyOfNoShift(shift_pressed, scancode) ==
    CASE scancode = SC_BACKSPACE -> 8
      [] scancode = SC_ENTER -> 10
      [] scancode = SC_LEFT -> 0 - 1
      [] scancode = SC_RIGHT -> 0 - 2
      [] OTHER -> IF scancode < Len(scancode_to_ascii)
                  THEN scancode_to_ascii[scancode + 1]
                  ELSE 0
KeyOf(shift_pressed, scancode) ==
    CASE scancode = SC_BACKSPACE -> 8
      [] scancode = SC_ENTER -> 10
      [] scancode = SC_LEFT -> 0 - 1
      [] scancode = SC_RIGHT -> 0 - 2
      [] OTHER -> IF scancode < Len(scancode_to_ascii)
                  THEN IF shift_pressed = 1
                       THEN scancode_to_ascii_shift[scancode + 1]
                       ELSE scancode_to_ascii[scancode + 1]
                  ELSE 0

\* the store into the mailbox: the handler assigns pending_key whenever the
\* scan code stands for a byte
Deposit(K, key) == IF key # 0 THEN [K EXCEPT !.pending_key = key] ELSE K

\* keyboard_handler: data_ready is the test of the status port; last records
\* what the run saw
keyboard_handler_run(K, data_ready, scancode) ==
    LET seen == [K EXCEPT !.last = [ran |-> TRUE, data_ready |-> data_ready,
                                    scancode |-> scancode,
                                    shift |-> K.shift_pressed,
                                    ready |-> K.system_ready,
                                    before |-> K.pending_key],
                          !.eoi = 1]
    IN  IF ~data_ready THEN seen
        ELSE IF scancode \in {LSHIFT_DOWN, RSHIFT_DOWN}
             THEN [seen EXCEPT !.shift_pressed = 1]
        ELSE IF scancode \in {LSHIFT_UP, RSHIFT_UP}
             THEN [seen EXCEPT !.shift_pressed = 0]
        ELSE IF scancode >= RELEASE_BIT THEN seen
        ELSE LET flagged == [seen EXCEPT !.key_pressed_flag = 1]
             IN  IF K.system_ready = 1
                 THEN Deposit(flagged, KeyOf(K.shift_pressed, scancode))
                 ELSE flagged

\* process_pending_key: hand the byte to the shell and empty the slot
process_pending_key(K) ==
    IF K.pending_key # 0
    THEN [K EXCEPT !.pending_key = 0]
    ELSE K

KbdReset ==
    [shift_pressed |-> 0, key_pressed_flag |-> 0, pending_key |-> 0,
     system_ready |-> 0, eoi |-> 0,
     last |-> [ran |-> FALSE, data_ready |-> FALSE, scancode |-> 0, shift |-> 0,
               ready |-> 0, before |-> 0]]

----------------------------------------------------------------------------
(* paging_map statement by statement, for contexts that run it at the same *)
(* time.  A virtual address is its four table indices; table 0 is          *)
(* kernel_pml4 and table n > 0 is the n-th frame pmm_alloc_page handed out; *)
(* an entry is 0 when not present and the frame it points to otherwise.    *)

TABLE_DEPTH == 4
MapIdx == {0, 1}
ZeroedTable == [i \in MapIdx |-> 0]

CmapIdleCtx == [pc |-> "idle", va |-> <<0, 0, 0, 0>>, phys |-> 0, level |-> 1,
                table |-> 0, new |-> 0]

\* one statement of paging_map in context c: the present test of the level,
\* pmm_alloc_page with the zeroing loop, the store that links the new table,
\* the load of the next table's address, and the store of the leaf
MapStep(C, c) ==
    LET x == C.ctx[c]
        i == x.va[x.level]
        e == C.tbl[x.table][i]
    IN  CASE x.pc = "test" ->
                 [C EXCEPT !.ctx[c].pc = IF e = 0 THEN "alloc" ELSE "load"]
          [] x.pc = "alloc" ->
                 [C EXCEPT !.next = @ + 1,
                           !.tbl[C.next] = ZeroedTable,
                           !.ctx[c].new = C.next,
                           !.ctx[c].pc = "link"]
          [] x.pc = "link" ->
                 [C EXCEPT !.tbl[x.table][i] = x.new, !.ctx[c].pc = "load"]
          [] x.pc = "load" ->
                 [C EXCEPT !.ctx[c].table = e,
                           !.ctx[c].level = @ + 1,
                           !.ctx[c].pc = IF x.level + 1 = TABLE_DEPTH
                                         THEN "leaf" ELSE "test"]
          [] x.pc = "leaf" ->
                 [C EXCEPT !.tbl[x.table][i] = x.phys, !.ctx[c].pc = "done"]
          [] OTHER -> C

\* the leaf entry the tables hold for va, 0 when the walk meets a missing one
RECURSIVE MapWalk(_, _, _, _)
MapWalk(tbl, table, va, level) ==
    LET e == tbl[table][va[level]]
    IN  IF level = TABLE_DEPTH \/ e = 0 THEN e
        ELSE MapWalk(tbl, e, va, level + 1)

CmapReset ==
    [tbl |-> [t \in 0 .. 2 * (TABLE_DEPTH - 1) |-> ZeroedTable],
     next |-> 1,
     ctx |-> [c \in 1 .. 2 |-> CmapIdleCtx]]

----------------------------------------------------------------------------
(* IDT: src/kernel/hardware/idt.c.  A 64-bit handler address is kept as its *)
(* four 16-bit words, lowest first; an address [k, off] of the kernel image *)
(* is 0xFFFFFFFF80000000 * k + off with off below 2^31.  The table of 256    *)
(* gates is kept as the function from the vectors idt_set_descriptor has    *)
(* written to their gates; every other gate is the zeroed one of static     *)
(* storage.                                                                 *)

IDT_ENTRIES == 256
IDT_ENTRY_SIZE == 16
GATE_FLAGS == 142          \* 0x8E
KERNEL_CS == 8
VEC_PAGE_FAULT == 14
VEC_KEYBOARD == 33
PIC1_VECTOR_OFFSET == 32

Words(a) ==
    <<a.off % 65536,
      (a.k * 32768 + a.off \div 65536) % 65536,
      a.k * 65535,
      a.k * 65535>>

\* the zeroed struct idt_entry of static storage
ZeroEntry ==
    [isr_low |-> 0, kernel_cs |-> 0, ist |-> 0, attributes |-> 0,
     isr_mid |-> 0, isr_high |-> <<0, 0>>, reserved |-> 0]

\* isr_mid takes the low word again
idt_set_descriptorLowTwice(table, vector, isr, flags) ==
    [v \in DOMAIN table \cup {vector} |->
        IF v = vector
        THEN [isr_low |-> Words(isr)[1], kernel_cs |-> KERNEL_CS, ist |-> 0,
              attributes |-> flags, isr_mid |-> Words(isr)[1],
              isr_high |-> <<Words(isr)[3], Words(isr)[4]>>, reserved |-> 0]
        ELSE table[v]]

idt_set_descriptor(table, vector, isr, flags) ==
    [v \in DOMAIN table \cup {vector} |->
        IF v = vector
        THEN [isr_low |-> Words(isr)[1], kernel_cs |-> KERNEL_CS, ist |-> 0,
              attributes |-> flags, isr_mid |-> Words(isr)[2],
              isr_high |-> <<Words(isr)[3], Words(isr)[4]>>, reserved |-> 0]
        ELSE table[v]]

\* idt[v]
GateAt(table, v) == IF v \in DOMAIN table THEN table[v] ELSE ZeroEntry

\* the address the CPU jumps to through a gate
GateTarget(e) == <<e.isr_low, e.isr_mid, e.isr_high[1], e.isr_high[2]>>

\* where the linker put the three stubs of the ISR assembly file
StubLayouts ==
    { [page_fault_isr |-> PHYS_TO_VIRT(Phys(1052672)),
       keyboard_isr |-> PHYS_TO_VIRT(Phys(1052743)),
       generic_isr |-> PHYS_TO_VIRT(Phys(1052782))],
      [page_fault_isr |-> PHYS_TO_VIRT(Phys(1114050)),
       keyboard_isr |-> PHYS_TO_VIRT(Phys(1114121)),
       generic_isr |-> PHYS_TO_VIRT(Phys(1114160))],
      [page_fault_isr |-> PHYS_TO_VIRT(Phys(1179600)),
       keyboard_isr |-> PHYS_TO_VIRT(Phys(1179671)),
       generic_isr |-> PHYS_TO_VIRT(Phys(1245200))] }

\* the C function each stub calls
StubCalls(stub) ==
    CASE stub = "page_fault_isr" -> "page_fault_handler"
      [] stub = "keyboard_isr" -> "keyboard_handler"
      [] OTHER -> "generic_handler"

\* idt_init, one statement at a time
IdtStep(I) ==
    CASE I.pc = "pic_init" -> [I EXCEPT !.pic = TRUE, !.pc = "fill"]
      [] I.pc = "fill" ->
            IF I.i < IDT_ENTRIES
            THEN [I EXCEPT !.table = idt_set_descriptor(@, I.i, I.stubs.generic_isr, GATE_FLAGS),
                           !.i = @ + 1]
            ELSE [I EXCEPT !.pc = "page_fault"]
      [] I.pc = "page_fault" ->
            [I EXCEPT !.table = idt_set_descriptor(@, VEC_PAGE_FAULT, I.stubs.page_fault_isr, GATE_FLAGS),
                      !.pc = "keyboard"]
      [] I.pc = "keyboard" ->
            [I EXCEPT !.table = idt_set_descriptor(@, VEC_KEYBOARD, I.stubs.keyboard_isr, GATE_FLAGS),
                      !.pc = "idtp"]
      [] I.pc = "idtp" ->
            [I EXCEPT !.idtp = [limit |-> IDT_ENTRY_SIZE * IDT_ENTRIES - 1, base |-> "idt"],
                      !.pc = "load_idt"]
      [] I.pc = "load_idt" -> [I EXCEPT !.idtr = I.idtp, !.pc = "done"]
      [] OTHER -> I

\* idt_init from its first statement to its last
IdtRun(I) ==
    LET Gate(isr) == idt_set_descriptor(<<>>, 0, isr, GATE_FLAGS)[0]
    IN  [I EXCEPT !.pc = "done", !.i = IDT_ENTRIES, !.pic = TRUE,
                  !.table = [v \in 0 .. (IDT_ENTRIES - 1) |->
                                IF v = VEC_KEYBOARD THEN Gate(I.stubs.keyboard_isr)
                                ELSE IF v = VEC_PAGE_FAULT THEN Gate(I.stubs.page_fault_isr)
                                ELSE Gate(I.stubs.generic_isr)],
                  !.idtp = [limit |-> IDT_ENTRY_SIZE * IDT_ENTRIES - 1, base |-> "idt"],
                  !.idtr = [limit |-> IDT_ENTRY_SIZE * IDT_ENTRIES - 1, base |-> "idt"]]

\* the statics of idt.c before idt_init is called
IdtEntry(stubs) ==
    [stubs |-> stubs, pc |-> "pic_init", i |-> 0, pic |-> FALSE,
     table |-> <<>>,
     idtp |-> [limit |-> 0, base |-> "none"],
     idtr |-> [limit |-> 0, base |-> "none"]]

IdtReset == IdtEntry(CHOOSE l \in StubLayouts : l.generic_isr.off = 1052782)

----------------------------------------------------------------------------
(* Boot: kmain of src/kernel/kernel.c, one call or loop iteration at a time. *)
(* The Multiboot2 information is the sequence of its tags, the last one of   *)
(* type 0; a memory map tag holds entries [addr, len, type].                 *)

MULTIBOOT2_BOOTLOADER_MAGIC == 920085129     \* 0x36d76289
MULTIBOOT_TAG_TYPE_END == 0
MULTIBOOT_TAG_TYPE_MMAP == 6
MULTIBOOT_MEMORY_AVAILABLE == 1
DEFAULT_MAX_PHYSICAL == 536870912            \* 0x20000000

\* the statics of pmm.c and of the heap before their init routines ran
PmmStatic == [zero_bits |-> {}, bitmap_size |-> 0, total_pages |-> 0, used_pages |-> 0]
HeapStatic == [head |-> NULL, nodes |-> <<>>, grown |-> {}]

\* kmain without the test of the magic value
MagicTestAlwaysPasses(magic) == "tags"

\* kernel.c:25-29
MagicTest(magic) == IF magic # MULTIBOOT2_BOOTLOADER_MAGIC THEN "spin" ELSE "tags"

\* kernel.c:41-49: the inner loop over the entries of a memory map tag
RECURSIVE ScanEntries(_, _, _)
ScanEntries(entries, i, max_physical_addr) ==
    IF i > Len(entries) THEN max_physical_addr
    ELSE ScanEntries(entries, i + 1,
             IF /\ entries[i].type = MULTIBOOT_MEMORY_AVAILABLE
                /\ entries[i].addr + entries[i].len > max_physical_addr
             THEN entries[i].addr + entries[i].len
             ELSE max_physical_addr)

\* the state at the entry of kmain
KbootEntry(magic, tags, kernel_phys_end) ==
    [magic |-> magic, tags |-> tags, kernel_phys_end |-> kernel_phys_end,
     pc |-> "idt_init", log |-> <<>>,
     tag |-> 1, mmap_tag |-> 0, max_physical_addr |-> 0, i |-> 1,
     rflags_if |-> FALSE, cr3 |-> FALSE, halted |-> FALSE, spun |-> FALSE]

\* one step of kmain on its locals K and on the statics it reaches: S.pmm,
\* S.boot (bitmap_phys and b_end), S.heap and S.idt
KmainStep(K, S) ==
    LET Log(K2, call) == [K2 EXCEPT !.log = Append(@, call)]
    IN
    CASE K.pc = "idt_init" ->
            [K |-> Log([K EXCEPT !.pc = "gdt_init"], "idt_init"),
             S |-> [S EXCEPT !.idt = IdtRun(S.idt)]]
      [] K.pc = "gdt_init" ->
            [K |-> Log([K EXCEPT !.pc = "clear_screen"], "gdt_init"), S |-> S]
      [] K.pc = "clear_screen" ->
            [K |-> Log([K EXCEPT !.pc = "magic"], "clear_screen"), S |-> S]
      [] K.pc = "magic" ->
            [K |-> [K EXCEPT !.pc = MagicTest(K.magic)], S |-> S]
      [] K.pc = "spin" ->
            [K |-> [K EXCEPT !.spun = TRUE], S |-> S]
      [] K.pc = "tags" ->
            LET t == K.tags[K.tag]
            IN  IF t.type = MULTIBOOT_TAG_TYPE_END
                THEN [K |-> [K EXCEPT !.pc = "default_max"], S |-> S]
                ELSE IF t.type = MULTIBOOT_TAG_TYPE_MMAP
                THEN [K |-> Log([K EXCEPT !.mmap_tag = K.tag,
                                          !.max_physical_addr =
                                              ScanEntries(t.entries, 1, @),
                                          !.tag = @ + 1], "parse_mmap"),
                      S |-> S]
                ELSE [K |-> [K EXCEPT !.tag = @ + 1], S |-> S]
      [] K.pc = "default_max" ->
            [K |-> [K EXCEPT !.max_physical_addr =
                                 IF @ = 0 THEN DEFAULT_MAX_PHYSICAL ELSE @,
                             !.pc = "pmm_init"],
             S |-> S]
      [] K.pc = "pmm_init" ->
            [K |-> Log([K EXCEPT !.pc = "seed"], "pmm_init"),
             S |-> [S EXCEPT !.pmm = pmm_init(K.max_physical_addr),
                             !.boot = [bitmap_phys |-> BitmapPhys(K.kernel_phys_end),
                                       b_end |-> BEnd(BitmapPhys(K.kernel_phys_end),
                                                      K.max_physical_addr)]]]
      [] K.pc = "seed" ->
            IF K.mmap_tag = 0 \/ K.i > Len(K.tags[K.mmap_tag].entries)
            THEN [K |-> [K EXCEPT !.pc = "vmm_init"], S |-> S]
            ELSE LET e == K.tags[K.mmap_tag].entries[K.i]
                 IN  [K |-> Log([K EXCEPT !.i = @ + 1], "seed"),
                      S |-> IF e.type = MULTIBOOT_MEMORY_AVAILABLE
                            THEN [S EXCEPT !.pmm =
                                     MarkFreeAll(@, SeedAddrs(e, S.boot.bitmap_phys,
                                                              S.boot.b_end))]
                            ELSE S]
      [] K.pc = "vmm_init" ->
            [K |-> Log([K EXCEPT !.cr3 = TRUE, !.pc = "heap_init"], "vmm_init"),
             S |-> S]
      [] K.pc = "heap_init" ->
            [K |-> Log([K EXCEPT !.pc = "shell_init"], "heap_init"),
             S |-> [S EXCEPT !.heap = heap_init]]
      [] K.pc = "shell_init" ->
            [K |-> Log([K EXCEPT !.pc = "hlt"], "shell_init"), S |-> S]
      [] K.pc = "hlt" ->
            [K |-> [K EXCEPT !.halted = TRUE], S |-> S]
      [] OTHER -> [K |-> K, S |-> S]

\* the information structures explored: with and without a memory map tag,
\* available RAM from 2 MiB or from 1 MiB up, a reserved entry
BootRam == LOW_LIMIT + PagingFrames * PAGE_SIZE
OtherTag == [type |-> 1, entries |-> <<>>]
EndTag == [type |-> MULTIBOOT_TAG_TYPE_END, entries |-> <<>>]
BootStreams ==
    { <<OtherTag, EndTag>>,
      <<[type |-> MULTIBOOT_TAG_TYPE_MMAP,
         entries |-> <<[addr |-> LOW_LIMIT, len |-> BootRam - LOW_LIMIT, type |-> 1]>>],
        OtherTag, EndTag>>,
      <<OtherTag,
        [type |-> MULTIBOOT_TAG_TYPE_MMAP,
         entries |-> <<[addr |-> 0, len |-> 651264, type |-> 1],
                       [addr |-> 651264, len |-> 397312, type |-> 2],
                       [addr |-> 1048576, len |-> BootRam - 1048576, type |-> 1]>>],
        EndTag>> }
BootMagics == {MULTIBOOT2_BOOTLOADER_MAGIC, 0, 732803074}

KbootReset ==
    KbootEntry(MULTIBOOT2_BOOTLOADER_MAGIC, <<OtherTag, EndTag>>, 1200000)

\* a spinlock_t after SPINLOCK_INIT, and contexts that have not called yet
SpinReset ==
    [word |-> 0,
     pc |-> [c \in 1 .. MaxCtx |-> "idle"],
     last |-> [c |-> 0, op |-> "none", old |-> 0, new |-> 0, ret |-> 0]]

MlkReset == [op |-> "boot", held |-> <<>>, log |-> <<>>]

TlkIdle == tlk = TlkReset
KbdIdle == kbd = KbdReset
CmapIdle == cmap = CmapReset
----------------------------------------------------------------------------
(* yield() one statement at a time (task.c:289-294), so that the timer     *)
(* interrupt can run scheduler_tick between any two of them.  Y.pc is the    *)
(* statement about to run; Y.found, Y.scheduled and Y.mid tell what the last *)
(* call read, whether it called schedule() and whether a tick raised a       *)
(* request while it ran; Y.pending tells that a request was raised and       *)
(* schedule() has not been called since.  Y.tickbit flips at every tick and  *)
(* Y.counted is the number of ticks taken while tasks existed, modulo 25.    *)

YldReset ==
    [pc |-> "idle", found |-> 0, scheduled |-> FALSE, mid |-> FALSE, pending |-> FALSE,
     tickbit |-> FALSE, counted |-> 0]

\* yield with the store moved behind the call of schedule()
YieldStepClearLast(Y, T) ==
    CASE Y.pc = "idle" ->
            [Y |-> [Y EXCEPT !.pc = "test", !.found = 0, !.scheduled = FALSE, !.mid = FALSE],
             T |-> T]
      [] Y.pc = "test" ->
            [Y |-> [Y EXCEPT !.found = T.need_schedule,
                             !.pc = IF T.need_schedule # 0 THEN "schedule" ELSE "idle"],
             T |-> T]
      [] Y.pc = "schedule" ->
            [Y |-> [Y EXCEPT !.scheduled = TRUE, !.pending = FALSE, !.pc = "clear"],
             T |-> schedule(Call(T))]
      [] OTHER ->
            [Y |-> [Y EXCEPT !.pc = "idle"], T |-> [T EXCEPT !.need_schedule = 0]]

YieldStep(Y, T) ==
    CASE Y.pc = "idle" ->
            [Y |-> [Y EXCEPT !.pc = "test", !.found = 0, !.scheduled = FALSE, !.mid = FALSE],
             T |-> T]
      [] Y.pc = "test" ->
            [Y |-> [Y EXCEPT !.found = T.need_schedule,
                             !.pc = IF T.need_schedule # 0 THEN "clear" ELSE "idle"],
             T |-> T]
      [] Y.pc = "clear" ->
            [Y |-> [Y EXCEPT !.pc = "schedule"], T |-> [T EXCEPT !.need_schedule = 0]]
      [] OTHER ->
            [Y |-> [Y EXCEPT !.scheduled = TRUE, !.pending = FALSE, !.pc = "idle"],
             T |-> schedule(Call(T))]

\* scheduler_tick sets the flag in this call
Raises(T) == T.tasks_exist # 0 /\ T.counter + 1 >= SLICE_TICKS

\* no call of vmm_alloc yet
VmcReset == [op |-> "none", pages |-> 0, ret |-> NULL, frames |-> NULL, cursor |-> NULL]

----------------------------------------------------------------------------
(* The ISR stubs of the interrupt assembly file, one instruction at a time. *)
(* A 64-bit word is [t, v]: a word of the frame the CPU pushed, the error   *)
(* code, the value a register had at entry, or a value the C handler left.  *)
(* The stack is the sequence of its words, the top last.                    *)

PfSaved == <<"rax", "rbx", "rcx", "rdx", "rsi", "rdi", "rbp", "r8", "r9", "r10",
             "r11", "r12", "r13", "r14", "r15">>
IrqSaved == <<"rax", "rcx", "rdx", "rsi", "rdi", "r8", "r9", "r10", "r11">>
\* the registers a C function may change
Volatile == {"rax", "rcx", "rdx", "rsi", "rdi", "r8", "r9", "r10", "r11"}
GPRegs == {PfSaved[i] : i \in DOMAIN PfSaved}

Ins(op, r, n) == [op |-> op, r |-> r, n |-> n]
Pushes(saved) == [i \in DOMAIN saved |-> Ins("push", saved[i], 0)]
Pops(saved) == [i \in DOMAIN saved |-> Ins("pop", saved[Len(saved) + 1 - i], 0)]

page_fault_isr ==
    Pushes(PfSaved)
        \o <<Ins("mov", "rdi", 120), Ins("call", "page_fault_handler", 0)>>
        \o Pops(PfSaved)
        \o <<Ins("add_rsp", "", 8), Ins("iretq", "", 0)>>
keyboard_isr ==
    Pushes(IrqSaved) \o <<Ins("call", "keyboard_handler", 0)>> \o Pops(IrqSaved)
        \o <<Ins("iretq", "", 0)>>
generic_isr ==
    Pushes(IrqSaved) \o <<Ins("call", "generic_handler", 0)>> \o Pops(IrqSaved)
        \o <<Ins("iretq", "", 0)>>

StubCode(stub) ==
    CASE stub = "page_fault_isr" -> page_fault_isr
      [] stub = "keyboard_isr" -> keyboard_isr
      [] OTHER -> generic_isr

\* the vectors whose exception pushes an error code (#DF, #TS, #NP, #SS,
\* #GP, #PF, #AC, #CP, #VC, #SX)
ErrorCodeVectors == {8, 10, 11, 12, 13, 14, 17, 21, 29, 30}

Word(t, v) == [t |-> t, v |-> v]
\* SS, RSP, RFLAGS, CS, RIP of the interrupted code
CpuFrame == [i \in 1 .. 5 |-> Word("frame", i)]
EntryRegs == [r \in GPRegs |-> Word(r, 0)]

\* the CPU delivers vector v through the gate of stub; code is the error
\* code it pushes if v is one of ErrorCodeVectors
IsrEntry(v, stub, code) ==
    [vector |-> v, stub |-> stub, code |-> code, pc |-> 1, regs |-> EntryRegs,
     stack |-> IF v \in ErrorCodeVectors THEN Append(CpuFrame, Word("err", code)) ELSE CpuFrame,
     arg |-> Word("none", 0), state |-> "running"]

\* one instruction of the stub; the call returns with the stack as it was
\* and the volatile registers changed; iretq pops RIP, CS, RFLAGS, RSP, SS
IsrStep(I) ==
    LET ins == StubCode(I.stub)[I.pc]
        top == I.stack[Len(I.stack)]
        below == SubSeq(I.stack, 1, Len(I.stack) - 1)
        J == [I EXCEPT !.pc = @ + 1]
    IN  CASE ins.op = "push" -> [J EXCEPT !.stack = Append(@, I.regs[ins.r])]
          [] ins.op = "pop" -> [J EXCEPT !.stack = below, !.regs[ins.r] = top]
          [] ins.op = "mov" ->
                [J EXCEPT !.regs[ins.r] = I.stack[Len(I.stack) - ins.n \div 8]]
          [] ins.op = "call" ->
                [J EXCEPT !.arg = I.regs["rdi"],
                          !.regs = [r \in GPRegs |->
                                        IF r \in Volatile THEN Word("junk", 0) ELSE I.regs[r]]]
          [] ins.op = "add_rsp" ->
                [J EXCEPT !.stack = SubSeq(@, 1, Len(@) - ins.n \div 8)]
          [] OTHER ->
                [I EXCEPT !.state = IF I.stack = CpuFrame THEN "returned" ELSE "bad_frame"]

IntrReset == [IsrEntry(0, "generic_isr", 0) EXCEPT !.state = "none"]

----------------------------------------------------------------------------
(* Exit paths: every function that takes a spin lock, or calls one that     *)
(* does, as the set of its paths from entry to return.  A path is the       *)
(* sequence of its spinlock_acquire and spinlock_release calls and of its   *)
(* calls of other functions of this table; the path of a callee is chosen   *)
(* when the call is made.                                                   *)

EvAcquire(l) == [op |-> "acquire", a |-> l]
EvRelease(l) == [op |-> "release", a |-> l]
EvCall(f) == [op |-> "call", a |-> f]
\* the jump into the first task, which does not come back
Jump == [op |-> "jump", a |-> ""]
Path(name, ev) == [name |-> name, ev |-> ev]
Locked(l) == <<EvAcquire(l), EvRelease(l)>>

PmmLockPaths ==
    [pmm_mark_free |-> {Path("done", Locked("pmm_lock"))},
     pmm_mark_used |-> {Path("done", Locked("pmm_lock"))},
     pmm_alloc_page |-> {Path("found", Locked("pmm_lock")), Path("none", Locked("pmm_lock"))},
     pmm_alloc_pages |-> {Path("found", Locked("pmm_lock")), Path("none", Locked("pmm_lock"))},
     pmm_free_page |-> {Path("done", <<EvCall("pmm_mark_free")>>)}]

VmmLockPaths ==
    [vmm_map |-> {Path("done", <<EvCall("paging_map")>>)},
     vmm_map_range |-> {Path("empty", <<>>), Path("one_page", <<EvCall("paging_map")>>)},
     vmm_alloc |->
         {Path("failed", <<EvAcquire("vmm_lock"), EvCall("pmm_alloc_pages"), EvRelease("vmm_lock")>>),
          Path("mapped", <<EvAcquire("vmm_lock"), EvCall("pmm_alloc_pages"), EvCall("paging_map"),
                           EvRelease("vmm_lock")>>)},
     paging_map |->
         {Path("present", <<>>),
          Path("one_table", <<EvCall("pmm_alloc_page")>>),
          Path("three_tables",
               <<EvCall("pmm_alloc_page"), EvCall("pmm_alloc_page"), EvCall("pmm_alloc_page")>>)}]

\* malloc's return after vmm_alloc failed
malloc_grow_failedHoldsLock == <<EvAcquire("heap_lock"), EvCall("vmm_alloc")>>
malloc_grow_failed == <<EvAcquire("heap_lock"), EvCall("vmm_alloc"), EvRelease("heap_lock")>>

HeapLockPaths ==
    [malloc |->
         {Path("zero", <<>>),
          Path("no_heap", Locked("heap_lock")),
          Path("fit", Locked("heap_lock")),
          Path("grow_failed", malloc_grow_failed),
          Path("grown", <<EvAcquire("heap_lock"), EvCall("vmm_alloc"), EvRelease("heap_lock")>>),
          Path("end", Locked("heap_lock"))},
     free |->
         {Path("null", <<>>),
          Path("bad_magic", Locked("heap_lock")),
          Path("freed", Locked("heap_lock"))}]

PicLockPaths ==
    [pic_remap |-> {Path("done", Locked("pic_lock"))},
     pic_init |-> {Path("done", <<EvCall("pic_remap"), EvCall("pic_irq_mask_all")>>)},
     pic_send_eoi |-> {Path("master", Locked("pic_lock")), Path("slave", Locked("pic_lock"))},
     pic_irq_enable |-> {Path("done", Locked("pic_lock"))},
     pic_irq_disable |-> {Path("done", Locked("pic_lock"))},
     pic_irq_mask_all |-> {Path("done", Locked("pic_lock"))},
     pic_irq_unmask_all |-> {Path("done", Locked("pic_lock"))},
     pic_get_irr |-> {Path("done", Locked("pic_lock"))},
     pic_get_isr |-> {Path("done", Locked("pic_lock"))}]

schedule_locks ==
    <<EvAcquire("runqueue_lock"), EvAcquire("current_task_lock"),
      EvRelease("current_task_lock"), EvRelease("runqueue_lock")>>

TaskLockPaths ==
    [add_task_to_runqueue |-> {Path("done", Locked("runqueue_lock"))},
     remove_task_from_runqueue |->
         {Path("null", Locked("runqueue_lock")), Path("unlinked", Locked("runqueue_lock"))},
     task_create |->
         {Path("no_func", <<>>),
          Path("no_descriptor", <<EvCall("malloc")>>),
          Path("no_stack", <<EvCall("malloc"), EvCall("malloc"), EvCall("free")>>),
          Path("created", <<EvCall("malloc"), EvCall("malloc"), EvCall("add_task_to_runqueue")>>)},
     task_exit |->
         {Path("no_current", Locked("current_task_lock")),
          Path("exited", <<EvAcquire("current_task_lock"), EvCall("printf"), EvRelease("current_task_lock"),
                           EvCall("remove_task_from_runqueue"), EvCall("schedule")>>)},
     schedule |->
         {Path("empty", schedule_locks),
          Path("switch_to", schedule_locks),
          Path("first_task", Append(schedule_locks, Jump)),
          Path("stay", schedule_locks)},
     scheduler_tick |-> {Path("no_tasks", <<>>), Path("counted", <<>>)},
     get_current_task |-> {Path("done", Locked("current_task_lock"))},
     get_current_pid |-> {Path("done", Locked("current_task_lock"))},
     yield |-> {Path("idle", <<>>), Path("requested", <<EvCall("schedule")>>)},
     find_task_by_pid |->
         {Path("bad_pid", <<>>),
          Path("empty", Locked("runqueue_lock")),
          Path("searched", Locked("runqueue_lock"))},
     kill_task |->
         {Path("bad_pid", <<>>),
          Path("not_found", Locked("runqueue_lock")),
          Path("current", Locked("runqueue_lock")),
          Path("killed", <<EvAcquire("runqueue_lock"), EvRelease("runqueue_lock"), EvCall("free"), EvCall("free")>>)}]

\* the console routines the shell and task_exit print through
StdioLockPaths ==
    [putc |->
         {Path("newline", <<EvAcquire("lock"), EvRelease("lock"), EvCall("print_newline")>>),
          Path("wrap", <<EvAcquire("lock"), EvRelease("lock"), EvCall("print_newline"), EvAcquire("lock"), EvRelease("lock")>>),
          Path("plain", Locked("lock"))},
     print_newline |-> {Path("down", Locked("lock")), Path("scroll", Locked("lock"))},
     print_clear |-> {Path("done", Locked("lock"))},
     set_cursor |-> {Path("done", Locked("lock"))},
     puts |-> {Path("empty", <<>>), Path("one_char", <<EvCall("putc")>>)},
     printf |-> {Path("empty", <<>>), Path("one_char", <<EvCall("putc")>>)}]

ShellEdit == <<EvAcquire("shell_lock"), EvRelease("shell_lock"), EvCall("redraw_line")>>

ShellLockPaths ==
    [shell_init |->
         {Path("top_row", <<EvAcquire("shell_lock"), EvCall("set_cursor"), EvCall("puts"), EvRelease("shell_lock")>>),
          Path("below", <<EvAcquire("shell_lock"), EvCall("puts"), EvRelease("shell_lock")>>)},
     redraw_line |->
         {Path("done", <<EvCall("set_cursor"), EvCall("putc"), EvCall("putc"), EvCall("set_cursor")>>)},
     process_command |->
         {Path("empty", <<>>),
          Path("clear", <<EvCall("print_clear")>>),
          Path("help", <<EvCall("puts")>>),
          Path("mem", <<EvCall("puts"), EvCall("printf")>>),
          Path("tasks", <<EvCall("cmd_tasks")>>),
          Path("kill", <<EvCall("cmd_kill")>>),
          Path("reboot", <<EvCall("puts")>>),
          Path("unknown", <<EvCall("printf"), EvCall("printf")>>)},
     cmd_tasks |->
         {Path("none", <<EvCall("puts"), EvCall("get_current_task"), EvCall("puts")>>),
          Path("listed", <<EvCall("puts"), EvCall("get_current_task"), EvCall("puts"), EvCall("printf")>>)},
     cmd_kill |->
         {Path("usage", <<EvCall("puts")>>),
          Path("bad_pid", <<EvCall("puts")>>),
          Path("called", <<EvCall("kill_task"), EvCall("printf")>>)},
     shell_input |->
         {Path("newline", <<EvAcquire("shell_lock"), EvCall("puts"), EvRelease("shell_lock"),
                            EvCall("process_command"), EvCall("shell_init")>>),
          Path("backspace", ShellEdit),
          Path("left", ShellEdit),
          Path("right", ShellEdit),
          Path("insert", ShellEdit),
          Path("ignored", Locked("shell_lock"))}]

LockPaths ==
    PmmLockPaths @@ VmmLockPaths @@ HeapLockPaths @@ PicLockPaths @@ TaskLockPaths
        @@ StdioLockPaths @@ ShellLockPaths

CallFrame(f, p) == [fn |-> f, path |-> p.name, ev |-> p.ev, pc |-> 1, took |-> {}]
NoReturn == [fn |-> "", path |-> "", leaked |-> {}]

\* the next lock operation or the return of the innermost call; an acquire
\* of a held lock spins for ever
LockStep(L) ==
    LET d == Len(L.stack)
        f == L.stack[d]
        e == f.ev[f.pc]
        WithTop(g) == [L.stack EXCEPT ![d] = g]
    IN  IF f.pc > Len(f.ev)
        THEN [L EXCEPT !.stack = SubSeq(@, 1, d - 1),
                       !.ret = [fn |-> f.fn, path |-> f.path, leaked |-> f.took \cap L.held]]
        ELSE CASE e.op = "acquire" ->
                    [L EXCEPT !.stack = WithTop([f EXCEPT !.pc = @ + 1, !.took = @ \cup {e.a}]),
                              !.held = @ \cup {e.a}]
               [] e.op = "release" ->
                    [L EXCEPT !.stack = WithTop([f EXCEPT !.pc = @ + 1]), !.held = @ \ {e.a}]
               [] OTHER -> [L EXCEPT !.stack = <<>>, !.ret = NoReturn]

LkcReset == [stack |-> <<>>, held |-> {}, ret |-> NoReturn]

----------------------------------------------------------------------------
(* process_pending_key statement by statement, with the keyboard interrupt  *)
(* arriving between any two of them.  Every store of the handler into       *)
(* pending_key is a deposit and gets the next number; slot is the number of *)
(* the deposit pending_key holds, 0 for none.  pending_key is not volatile, *)
(* so the build decides whether the argument of shell_input is loaded again *)
(* after the test (reload).                                                 *)

\* does this run of the handler store into pending_key
Deposits(K, data_ready, scancode) ==
    keyboard_handler_run([K EXCEPT !.pending_key = 0], data_ready, scancode).pending_key # 0

\* the handler's run as the mailbox sees it
HandlerDeposit(M, K, data_ready, scancode) ==
    IF Deposits(K, data_ready, scancode)
    THEN [M EXCEPT !.deposits =
                       Append(@, keyboard_handler_run(K, data_ready, scancode).pending_key),
                   !.slot = Len(M.deposits) + 1]
    ELSE M

Delivered(M) == {M.delivered[i].id : i \in DOMAIN M.delivered}

\* if (pending_key != 0) { shell_input(pending_key); pending_key = 0; }
ConsumerStep(M, K) ==
    CASE M.pc = "idle" ->
            IF K.pending_key # 0
            THEN [M |-> [M EXCEPT !.pc = IF M.reload THEN "load" ELSE "call",
                                  !.arg = K.pending_key, !.arg_id = M.slot],
                  K |-> K]
            ELSE [M |-> M, K |-> K]
      [] M.pc = "load" ->
            [M |-> [M EXCEPT !.pc = "call", !.arg = K.pending_key, !.arg_id = M.slot],
             K |-> K]
      [] M.pc = "call" ->
            [M |-> [M EXCEPT !.pc = "clear",
                             !.delivered = Append(@, [id |-> M.arg_id, byte |-> M.arg])],
             K |-> K]
      [] OTHER ->
            [M |-> [M EXCEPT !.pc = "idle", !.slot = 0,
                             !.wiped = IF M.slot \in Delivered(M) \cup {0} THEN @
                                       ELSE @ \cup {M.slot}],
             K |-> [K EXCEPT !.pending_key = 0]]

MbxReset ==
    [pc |-> "idle", reload |-> FALSE, arg |-> 0, arg_id |-> 0, slot |-> 0,
     deposits |-> <<>>, delivered |-> <<>>, wiped |-> {}]

----------------------------------------------------------------------------
(* Port accesses of the keyboard handler and of pic_send_eoi, in order      *)

PIC1_COMMAND == 32      \* 0x20
PIC2_COMMAND == 160     \* 0xA0
PIC_EOI == 32           \* 0x20
KBD_STATUS_PORT == 100  \* 0x64
KBD_DATA_PORT == 96     \* 0x60
STATUS_OUTPUT_FULL == 1
STATUS_MOUSE_DATA == 32

Inb(port) == [op |-> "inb", port |-> port, value |-> 0]
Outb(port, value) == [op |-> "outb", port |-> port, value |-> value]

\* pic_send_eoi(line), between the acquire and the release of pic_lock
pic_send_eoi_io(line) ==
    (IF line >= 8 THEN <<Outb(PIC2_COMMAND, PIC_EOI)>> ELSE <<>>)
        \o <<Outb(PIC1_COMMAND, PIC_EOI)>>

\* (status & 0x01) && !(status & 0x20)
HasKeyData(status) ==
    /\ (status \div STATUS_OUTPUT_FULL) % 2 = 1
    /\ (status \div STATUS_MOUSE_DATA) % 2 = 0

\* the interrupt is acknowledged only when a scan code was read
keyboard_handler_ioEoiOnData(K, status, scancode) ==
    [K |-> keyboard_handler_run(K, HasKeyData(status), scancode),
     io |-> <<Inb(KBD_STATUS_PORT)>>
                \o (IF HasKeyData(status)
                    THEN <<Inb(KBD_DATA_PORT)>> \o pic_send_eoi_io(IRQ_KEYBOARD)
                    ELSE <<>>)]
\* keyboard_handler with the status byte and the scan code the ports give
keyboard_handler_io(K, status, scancode) ==
    [K |-> keyboard_handler_run(K, HasKeyData(status), scancode),
     io |-> <<Inb(KBD_STATUS_PORT)>>
                \o (IF HasKeyData(status) THEN <<Inb(KBD_DATA_PORT)>> ELSE <<>>)
                \o pic_send_eoi_io(IRQ_KEYBOARD)]

PioReset == [op |-> "none", irq |-> 0, status |-> 0, scancode |-> 0, io |-> <<>>]

KbootIdle == kboot = KbootReset
IdtIdle == idt = IdtReset
YldIdle == yld = YldReset
VmcIdle == vmc = VmcReset
IntrIdle == intr = IntrReset
LkcIdle == lkc = LkcReset
MbxIdle == mbx = MbxReset
PioIdle == pio = PioReset
IrqIdle == irq = IrqReset
SpinIdle == spin = SpinReset
MlkIdle == mlk = MlkReset

TaskIdle ==
    /\ task = scheduler_init(1 .. MaxTasks, TRUE)
    /\ task_hist = [op |-> "init", before |-> NoTask, ret |-> 0, trace |-> <<>>]

RtInit == rt = [base |-> 0, ptrs |-> <<>>, freed |-> {}]
LastInit == pmm_last = [op |-> "boot", count |-> 0, ret |-> NULL, wasFree |-> TRUE, low |-> FALSE]
SideIdleBut(v) ==
    /\ IF v = "stk" THEN TRUE ELSE StkIdle
    /\ IF v = "irq" THEN TRUE ELSE IrqIdle
    /\ IF v = "spin" THEN TRUE ELSE SpinIdle
    /\ IF v = "mlk" THEN TRUE ELSE MlkIdle
    /\ IF v = "tlk" THEN TRUE ELSE TlkIdle
    /\ IF v = "kbd" THEN TRUE ELSE KbdIdle
    /\ IF v = "cmap" THEN TRUE ELSE CmapIdle
    /\ IF v = "kboot" THEN TRUE ELSE KbootIdle
    /\ IF v = "idt" THEN TRUE ELSE IdtIdle
    /\ IF v = "yld" THEN TRUE ELSE YldIdle
    /\ IF v = "vmc" THEN TRUE ELSE VmcIdle
    /\ IF v = "intr" THEN TRUE ELSE IntrIdle
    /\ IF v = "lkc" THEN TRUE ELSE LkcIdle
    /\ IF v = "mbx" THEN TRUE ELSE MbxIdle
    /\ IF v = "pio" THEN TRUE ELSE PioIdle
SideIdle == SideIdleBut("none")

----------------------------------------------------------------------------
(* The PMM under an arbitrary client: every public routine of pmm.c, with    *)
(* arguments drawn from the frames of the model.                             *)

\* addresses a client passes to mark_free, mark_used and free_page: frame 0
\* (the null pointer), frames above 2 MiB, the first frame past the end of
\* RAM, an address inside a frame, and a higher-half alias as returned by
\* pmm_alloc_page and pmm_alloc_pages
ClientFrames == {0, 512, 513, 519, 512 + ExtraFrames}
ClientAddrs ==
    {Phys(f * PAGE_SIZE) : f \in ClientFrames}
        \cup {Phys(513 * PAGE_SIZE + 8), PHYS_TO_VIRT(Phys(512 * PAGE_SIZE))}

\* the page counts a client passes to pmm_alloc_pages
ClientCounts == {1, 2, 8, 9}

Touch(addr) == pmm_last.low \/ (addr.k = 0 /\ Block(addr) < 512)

\* the frames a successful allocation of count pages hands out
Handed(ret, count) == {Block(VIRT_TO_PHYS(ret)) + k : k \in 0 .. (count - 1)}

PmmMarkFree(addr) ==
    /\ pmm' = pmm_mark_free(pmm, addr)
    /\ pmm_last' = [op |-> "mark_free", count |-> 0, ret |-> NULL, wasFree |-> TRUE,
                    low |-> Touch(addr)]
    /\ UNCHANGED <<side_vars, boot, rt, paging_vars, heap_vars, task_vars>>

PmmMarkUsed(addr) ==
    /\ pmm' = pmm_mark_used(pmm, addr)
    /\ pmm_last' = [op |-> "mark_used", count |-> 0, ret |-> NULL, wasFree |-> TRUE,
                    low |-> Touch(addr)]
    /\ UNCHANGED <<side_vars, boot, rt, paging_vars, heap_vars, task_vars>>

PmmFreePage(addr) ==
    /\ pmm' = pmm_free_page(pmm, addr)
    /\ pmm_last' = [op |-> "free_page", count |-> 0, ret |-> NULL, wasFree |-> TRUE,
                    low |-> Touch(addr)]
    /\ UNCHANGED <<side_vars, boot, rt, paging_vars, heap_vars, task_vars>>

PmmAllocPage ==
    LET r == pmm_alloc_page(pmm)
    IN  /\ pmm' = r.st
        /\ pmm_last' = [op |-> "alloc_page", count |-> 1, ret |-> r.ret,
                        wasFree |-> r.ret = NULL \/ Handed(r.ret, 1) \subseteq pmm.zero_bits,
                        low |-> pmm_last.low]
        /\ UNCHANGED <<side_vars, boot, rt, paging_vars, heap_vars, task_vars>>

PmmAllocPages(count) ==
    LET r == pmm_alloc_pages(pmm, count)
    IN  /\ r.st.used_pages <= pmm.total_pages + MaxOver
        /\ pmm' = r.st
        /\ pmm_last' = [op |-> "alloc_pages", count |-> count, ret |-> r.ret,
                        wasFree |-> r.ret = NULL \/ Handed(r.ret, count) \subseteq pmm.zero_bits,
                        low |-> pmm_last.low]
        /\ UNCHANGED <<side_vars, boot, rt, paging_vars, heap_vars, task_vars>>

InitPMM == BootInit /\ LastInit /\ SideIdle /\ RtInit /\ PagingIdle /\ HeapInit /\ TaskIdle

NextPMM ==
    \/ \E addr \in ClientAddrs : PmmMarkFree(addr)
    \/ \E addr \in ClientAddrs : PmmMarkUsed(addr)
    \/ \E addr \in ClientAddrs : PmmFreePage(addr)
    \/ PmmAllocPage
    \/ \E count \in ClientCounts : PmmAllocPages(count)

SpecPMM == InitPMM /\ [][NextPMM]_vars

----------------------------------------------------------------------------
(* The round trip of spec scenario 2: some pmm_alloc_page calls, then         *)
(* pmm_free_page on each pointer they returned, in any order.                 *)

RtAlloc ==
    LET r == pmm_alloc_page(pmm)
    IN  /\ rt.freed = {}
        /\ Len(rt.ptrs) < MaxRoundTrip
        /\ r.ret # NULL
        /\ pmm' = r.st
        /\ rt' = [rt EXCEPT !.ptrs = Append(@, r.ret)]
        /\ UNCHANGED <<side_vars, boot, pmm_last, paging_vars, heap_vars, task_vars>>

RtFree(i) ==
    /\ i \in (1 .. Len(rt.ptrs)) \ rt.freed
    /\ pmm' = pmm_free_page(pmm, rt.ptrs[i])
    /\ rt' = [rt EXCEPT !.freed = @ \cup {i}]
    /\ UNCHANGED <<side_vars, boot, pmm_last, paging_vars, heap_vars, task_vars>>

InitRT ==
    /\ BootInit
    /\ LastInit /\ SideIdle
    /\ rt = [base |-> pmm_get_free_kb(pmm), ptrs |-> <<>>, freed |-> {}]
    /\ PagingIdle
    /\ HeapInit
    /\ TaskIdle

NextRT ==
    \/ RtAlloc
    \/ \E i \in 1 .. MaxRoundTrip : RtFree(i)

SpecRT == InitRT /\ [][NextRT]_vars

----------------------------------------------------------------------------
(* Claims about the PMM *)

AllocReturned ==
    pmm_last.op \in {"alloc_page", "alloc_pages"} /\ pmm_last.ret # NULL

\* the frames that hold the bitmap's bitmap_size bytes, placed at bitmap_phys
BitmapBacking ==
    (boot.bitmap_phys \div PAGE_SIZE) ..
        ((boot.bitmap_phys + pmm.bitmap_size - 1) \div PAGE_SIZE)

\* C1: no frame returned by pmm_alloc_page or pmm_alloc_pages has an index
\* below 512 or is one of the frames that hold the bitmap.
C1_PmmSafety ==
    AllocReturned =>
        \A f \in Handed(pmm_last.ret, pmm_last.count) :
            f >= 512 /\ f \notin BitmapBacking

\* C2: a non-null pmm_alloc_pages(n) returns n contiguous frames that were
\* all free before the call and are all marked used after it.
C2_AllocPagesRun ==
    (pmm_last.op = "alloc_pages" /\ pmm_last.ret # NULL) =>
        /\ pmm_last.wasFree
        /\ \A f \in Handed(pmm_last.ret, pmm_last.count) : BitSet(pmm, f)

\* C3: as long as only frames with index >= 512 were named, used KB plus free
\* KB equals total KB.
C3_Conservation ==
    ~pmm_last.low =>
        pmm_get_used_kb(pmm) + pmm_get_free_kb(pmm) = pmm_get_total_kb(pmm)

\* C4: used_pages equals the number of frames below total_pages whose bit is 1.
C4_CounterMatchesBitmap ==
    pmm.used_pages = Cardinality({f \in 0 .. (pmm.total_pages - 1) : BitSet(pmm, f)})

\* the frames pmm_alloc_page may hand out in state st: bit clear, index >= 512
Eligible(st) == {f \in 512 .. (st.bitmap_size * 8 - 1) : ~BitSet(st, f)}

C5_RoundTrip ==
    /\ \A i, j \in 1 .. Len(rt.ptrs) : i # j => rt.ptrs[i] # rt.ptrs[j]
    /\ (Len(rt.ptrs) > 0 /\ rt.freed = 1 .. Len(rt.ptrs)) =>
           pmm_get_free_kb(pmm) = rt.base

----------------------------------------------------------------------------
(* Paging under a client that maps pages while other clients take frames    *)

MapVirts == { [k |-> 1, off |-> 1342177280],    \* 0xFFFFFFFFD0000000
              [k |-> 1, off |-> 1073741824] }   \* 0xFFFFFFFFC0000000
MapPhys == {Phys(16777216), Phys(8192)}
MapFlags == {3, 2}
\* byte offsets inside a page at which a translation is compared
PageOffsets == {0, 1, 4095}

StateS == [pmm |-> pmm, mem |-> mem, next |-> next_virt_addr, fault |-> FALSE]

PagingMap(virt, phys, flags) ==
    LET S == paging_map(StateS, hw, virt, phys, flags)
    IN  /\ ~hw.halted
        /\ pmm' = S.pmm
        /\ IF S.fault
           THEN /\ hw' = [hw EXCEPT !.halted = TRUE]
                /\ UNCHANGED <<mem, pg>>
           ELSE /\ mem' = S.mem
                /\ pg' = IF flags % 2 = 1
                         THEN (virt :> phys) @@ pg
                         ELSE [v \in DOMAIN pg \ {virt} |-> pg[v]]
                /\ UNCHANGED hw
        /\ UNCHANGED <<side_vars, boot, pmm_last, rt, next_virt_addr, heap_vars, task_vars>>

\* another client of the PMM takes a page
PgAllocPage ==
    /\ ~hw.halted
    /\ pmm_alloc_page(pmm).ret # NULL
    /\ pmm' = pmm_alloc_page(pmm).st
    /\ UNCHANGED <<side_vars, boot, pmm_last, rt, paging_vars, heap_vars, task_vars>>

\* a machine with PagingFrames frames of RAM above 2 MiB
PagingMaps == { <<[addr |-> LOW_LIMIT, len |-> PagingFrames * PAGE_SIZE]>> }

InitPaging == Boot(PagingMaps, {1200000}) /\ LastInit /\ SideIdle /\ RtInit /\ PagingInit /\ HeapInit /\ TaskIdle

NextPaging ==
    \/ \E virt \in MapVirts, phys \in MapPhys, flags \in MapFlags : PagingMap(virt, phys, flags)
    \/ PgAllocPage

SpecPaging == InitPaging /\ [][NextPaging]_vars

\* C9: a page mapped with the present bit translates, at every offset, to
\* the physical address it was mapped to, until it is mapped again.
C9_PagingRoundTrip ==
    \A v \in DOMAIN pg : \A o \in PageOffsets :
        vmm_get_phys(mem, AddOff(v, o)) = AddOff(pg[v], o)

----------------------------------------------------------------------------
(* The heap under a client that allocates and frees blocks                  *)

\* the sizes the client asks for: 13 is rounded up to 16 and fits a freed
\* block of 24 without a split, 2000 fills the static area in two blocks
HeapSizes == {0, 13, 24, 40, 2000}

HeapMalloc(size) ==
    LET r == malloc(heap, StateS, hw, size)
    IN  /\ ~hw.halted
        /\ r.ret = NULL \/ Cardinality(heap_hist.live) < MaxLive
        /\ heap' = r.H
        /\ pmm' = r.S.pmm
        /\ mem' = r.S.mem
        /\ next_virt_addr' = r.S.next
        /\ hw' = [hw EXCEPT !.halted = r.S.fault]
        /\ heap_hist' =
               [live |-> IF r.ret = NULL THEN heap_hist.live
                         ELSE heap_hist.live
                                  \cup {[ptr |-> r.ret,
                                          size |-> r.H.nodes[AddOff(r.ret, 0 - HEADER_SIZE)].size]},
                op |-> "malloc", size |-> size, ret |-> r.ret,
                pmm_free |-> Cardinality(FreeBits(pmm))]
        /\ UNCHANGED <<side_vars, boot, pmm_last, rt, pg, task_vars>>

\* free of a pointer that malloc returned and that was not freed since
HeapFree(p) ==
    /\ ~hw.halted
    /\ p \in heap_hist.live
    /\ heap' = free(heap, p.ptr)
    /\ heap_hist' =
           [live |-> heap_hist.live \ {p},
            op |-> "free", size |-> 0, ret |-> p.ptr,
            pmm_free |-> Cardinality(FreeBits(pmm))]
    /\ UNCHANGED <<side_vars, pmm_vars, paging_vars, task_vars>>

HeapFreeNull ==
    /\ ~hw.halted
    /\ heap' = free(heap, NULL)
    /\ heap_hist' = [heap_hist EXCEPT !.op = "free", !.size = 0, !.ret = NULL,
                                      !.pmm_free = Cardinality(FreeBits(pmm))]
    /\ UNCHANGED <<side_vars, pmm_vars, paging_vars, task_vars>>

\* pointers into the middle of a live block: the bytes in front of them are
\* the size and next fields of the block's header, not a magic word
InteriorOffsets == {4, 8}

\* free of a pointer that malloc did not return, or of NULL
HeapFreeInvalid(p, d) ==
    /\ ~hw.halted
    /\ heap' = free(heap, IF d = 0 THEN NULL ELSE AddOff(p.ptr, d))
    /\ mlk' = FreeLocks([op |-> "free", held |-> mlk.held, log |-> <<>>], d)
    /\ heap_hist' = [heap_hist EXCEPT !.op = "free_invalid", !.size = d, !.ret = p.ptr,
                                      !.pmm_free = Cardinality(FreeBits(pmm))]
    /\ UNCHANGED <<but_mlk, pmm_vars, paging_vars, task_vars>>

InitHeap == Boot(PagingMaps, {1200000}) /\ LastInit /\ SideIdle /\ RtInit /\ PagingIdle /\ HeapInit /\ TaskIdle

NextHeap ==
    \/ \E size \in HeapSizes : HeapMalloc(size)
    \/ \E p \in heap_hist.live : HeapFree(p)
    \/ HeapFreeNull

SpecHeap == InitHeap /\ [][NextHeap]_vars

\* a client that also passes pointers malloc never returned; 16 fits the
\* freed block of 24 at the head of the list without a split
FitSizes == {16, 24, 2000}

NextFit ==
    \/ \E size \in FitSizes : HeapMalloc(size)
    \/ \E p \in heap_hist.live : HeapFree(p)
    \/ \E p \in heap_hist.live, d \in InteriorOffsets \cup {0} : HeapFreeInvalid(p, d)

SpecFit == InitHeap /\ [][NextFit]_vars

Headers == {ListFrom(heap, heap.head)[i] : i \in 1 .. Len(ListFrom(heap, heap.head))}

\* the byte ranges [a, a + n) and [b, b + m) have no byte in common
Apart(a, n, b, m) == a.k # b.k \/ a.off + n <= b.off \/ b.off + m <= a.off

\* [a, a + n) lies in the static heap area or in one page the heap grew by
InBacking(a, n) ==
    \/ a.k = 1 /\ HEAP_AREA <= a.off /\ a.off + n <= HEAP_AREA + HEAP_AREA_SIZE
    \/ \E g \in heap.grown : a.k = g.k /\ g.off <= a.off /\ a.off + n <= g.off + 4096

\* C6: the payloads of two live allocations never overlap, no live payload
\* overlaps a header reachable from head, and every live payload lies inside
\* the heap's backing memory.
C6_HeapNoOverlap ==
    /\ \A a, b \in heap_hist.live : a # b => Apart(a.ptr, a.size, b.ptr, b.size)
    /\ \A a \in heap_hist.live : \A n \in Headers : Apart(a.ptr, a.size, n, HEADER_SIZE)
    /\ \A a \in heap_hist.live : InBacking(a.ptr, a.size)

\* two blocks are live, the later one cut out of a larger free node, and a
\* free hole lies in front of a live block
C6_Witness ==
    /\ Cardinality(heap_hist.live) = 2
    /\ heap_hist.op = "malloc" /\ heap_hist.ret # NULL
    /\ Len(ListFrom(heap, heap.head)) >= 4
    /\ heap.nodes[heap.head].free = 1

\* C7: every header reachable from head carries HEAP_MAGIC, the list ends in
\* a null next pointer, and head is not null once heap_init has run.
C7_HeapMagic ==
    /\ heap.head # NULL
    /\ \A n \in Headers :
           /\ heap.nodes[n].magic = HEAP_MAGIC
           /\ heap.nodes[n].next \in DOMAIN heap.nodes \cup {NULL}

\* a free has coalesced and the list still holds headers made by splits
C7_Witness ==
    /\ heap_hist.op = "free" /\ heap_hist.ret # NULL
    /\ Len(ListFrom(heap, heap.head)) >= 3

\* C8: malloc returns null for a request of at least one byte only when the
\* PMM has no free frame to grow the heap with.
C8_HeapGrowth ==
    (heap_hist.op = "malloc" /\ heap_hist.size > 0 /\ heap_hist.ret = NULL)
        => heap_hist.pmm_free = 0

\* C26: free of a pointer whose header does not carry HEAP_MAGIC, and free of
\* NULL, changes no heap node and returns with heap_lock released.
C26_InvalidFreeIgnored ==
    [][heap_hist'.op = "free_invalid" =>
           /\ heap' = heap
           /\ "heap_lock" \notin Range(mlk'.held)]_vars

\* an interior pointer of a live block has been passed to free, which took
\* and released heap_lock, while another block is free in the list
C26_Witness ==
    /\ heap_hist.op = "free_invalid" /\ heap_hist.size # 0
    /\ Len(mlk.log) = 1 /\ mlk.held = <<>>
    /\ \E n \in Headers : heap.nodes[n].free = 0
    /\ Len(ListFrom(heap, heap.head)) >= 3

\* the nodes of H's list, in list order, that are free and hold size bytes
Fits(H, size) ==
    SelectSeq(ListFrom(H, H.head),
              LAMBDA n : H.nodes[n].free # 0 /\ H.nodes[n].size >= size)

\* C25: malloc returns the payload of the first node in list order that is
\* free and large enough, so a freed block at the front of the list is
\* reused; every returned payload is 8-byte aligned and its header carries
\* HEAP_MAGIC.
C25_FirstFit ==
    [][(heap_hist'.op = "malloc" /\ heap_hist'.ret # NULL) =>
           /\ Fits(heap, RoundUp8(heap_hist'.size)) # <<>> =>
                  heap_hist'.ret = PayloadOf(Head(Fits(heap, RoundUp8(heap_hist'.size))))
           /\ heap_hist'.ret.off % 8 = 0
           /\ heap'.nodes[AddOff(heap_hist'.ret, 0 - HEADER_SIZE)].magic = HEAP_MAGIC
           /\ heap'.nodes[AddOff(heap_hist'.ret, 0 - HEADER_SIZE)].free = 0]_vars

\* after malloc(24) twice and free of the first block, malloc(16) has
\* returned the first block's address while the second block is live
C25_Witness ==
    /\ heap_hist.op = "malloc" /\ heap_hist.size = 16
    /\ heap_hist.ret = PayloadOf(heap.head)
    /\ heap.nodes[heap.head].size = 24
    /\ \E b \in heap_hist.live : b.size = 24 /\ b.ptr.off > heap_hist.ret.off

----------------------------------------------------------------------------
(* The scheduler under a client that creates, kills and exits tasks and     *)
(* calls schedule().  The heap is outside: each malloc of task_create       *)
(* returns a block or null.                                                 *)

\* the switches since the last create, exit or kill, the newest last
Switched(T0, T1, trace) ==
    IF T1.current_task # T0.current_task
    THEN IF Len(trace) < MaxSwitches THEN Append(trace, T1.current_task)
         ELSE Append(Tail(trace), T1.current_task)
    ELSE trace

TaskCreate(memory, stack_ok) ==
    /\ ~task.halted
    /\ task.next_pid <= MaxPid
    /\ IF memory = NoTask THEN TRUE ELSE ~task.tasks[memory].alloc
    /\ task' = task_create(Call(task), memory, stack_ok).T
    /\ task_hist' = [op |-> "task_create", before |-> task.current_task,
                     ret |-> task_create(Call(task), memory, stack_ok).ret, trace |-> <<>>]
    /\ UNCHANGED <<side_vars, pmm_vars, paging_vars, heap_vars>>

Schedule ==
    /\ ~task.halted
    /\ task' = schedule(Call(task))
    /\ task_hist' = [op |-> "schedule", before |-> task.current_task, ret |-> 0,
                     trace |-> Switched(task, schedule(Call(task)), task_hist.trace)]
    /\ UNCHANGED <<side_vars, pmm_vars, paging_vars, heap_vars>>

TaskExit ==
    /\ ~task.halted
    /\ task' = task_exit(Call(task), 0)
    /\ task_hist' = [op |-> "task_exit", before |-> task.current_task, ret |-> 0,
                     trace |-> Switched(task, task_exit(Call(task), 0), <<>>)]
    /\ UNCHANGED <<side_vars, pmm_vars, paging_vars, heap_vars>>

KillTask(pid) ==
    /\ ~task.halted
    /\ task' = kill_task(Call(task), pid).T
    /\ task_hist' = [op |-> "kill_task", before |-> task.current_task,
                     ret |-> kill_task(Call(task), pid).ret, trace |-> <<>>]
    /\ UNCHANGED <<side_vars, pmm_vars, paging_vars, heap_vars>>

InitTask ==
    /\ Boot(PagingMaps, {1200000}) /\ LastInit /\ SideIdle /\ RtInit /\ PagingIdle /\ HeapInit
    /\ \E low_mapped \in BOOLEAN : task = scheduler_init(1 .. MaxTasks, low_mapped)
    /\ task_hist = [op |-> "init", before |-> NoTask, ret |-> 0, trace |-> <<>>]

NextTask ==
    \/ \E memory \in 0 .. MaxTasks, stack_ok \in BOOLEAN : TaskCreate(memory, stack_ok)
    \/ Schedule
    \/ TaskExit
    \/ \E pid \in 0 .. MaxPid : KillTask(pid)

SpecTask == InitTask /\ [][NextTask]_vars

Members == {Ring(task)[i] : i \in 1 .. Len(Ring(task))}

\* the ring successor of t: the head when there is no current task
RingSucc(t) ==
    IF t = NoTask THEN task.runqueue
    ELSE Ring(task)[((CHOOSE i \in 1 .. Len(Ring(task)) : Ring(task)[i] = t)
                        % Len(Ring(task))) + 1]

LastSwitches(n) ==
    SubSeq(task_hist.trace, Len(task_hist.trace) - n + 1, Len(task_hist.trace))

Runs(t, n) == Cardinality({i \in 1 .. n : LastSwitches(n)[i] = t})

\* C10: with N tasks in the ready queue and no create, exit or kill in
\* between, a schedule() call leaves current on a member of the ring, the
\* successor of the task that was current; any N consecutive switches make
\* every member current exactly once, and over T switches every member runs
\* at least T \div N times.
C10_RoundRobin ==
    /\ (task_hist.op = "schedule" /\ task.runqueue # NoTask) =>
           /\ task.current_task \in Members
           /\ task_hist.before \in Members \cup {NoTask} =>
                  task.current_task = RingSucc(task_hist.before)
    /\ Len(task_hist.trace) >= Len(Ring(task)) =>
           \A t \in Members : Runs(t, Len(Ring(task))) = 1
    /\ \A n \in 1 .. Len(task_hist.trace) :
           \A t \in Members : Runs(t, n) >= n \div Len(Ring(task))

----------------------------------------------------------------------------
(* Three tasks created in order, timer ticks, and the running context       *)
(* calling yield()                                                          *)

\* the descriptors of the tasks A, B and C
ABC == <<1, 2, 3>>

CreateNext ==
    /\ task.next_pid <= Len(ABC)
    /\ TaskCreate(ABC[task.next_pid], TRUE)

SchedulerTick ==
    /\ ~task.halted
    /\ task' = scheduler_tick(Call(task))
    /\ task_hist' = [task_hist EXCEPT !.op = "scheduler_tick",
                                      !.before = task.current_task, !.ret = 0]
    /\ UNCHANGED <<side_vars, pmm_vars, paging_vars, heap_vars>>

Yield ==
    /\ ~task.halted
    /\ task' = yield(Call(task))
    /\ task_hist' = [op |-> "yield", before |-> task.current_task, ret |-> 0,
                     trace |-> Switched(task, yield(Call(task)), task_hist.trace)]
    /\ UNCHANGED <<side_vars, pmm_vars, paging_vars, heap_vars>>

NextYield ==
    \/ CreateNext
    \/ SchedulerTick
    \/ Yield

SpecYield == InitTask /\ [][NextYield]_vars

AllCreated == task.next_pid > Len(ABC) /\ Len(Ring(task)) = Len(ABC)

\* x is followed by y in the cyclic order of the sequence s
CyclicNext(s, x, y) ==
    \E i \in 1 .. Len(s) : s[i] = x /\ s[(i % Len(s)) + 1] = y

Periodic(trace, order) ==
    /\ \A i \in 1 .. Len(trace) - 1 : CyclicNext(order, trace[i], trace[i + 1])
    /\ \A i \in 1 .. Len(trace) - Len(order) : trace[i + Len(order)] = trace[i]

\* C11 (as stated): with A, B, C created in that order and yielding on
\* every pending request, the tasks become current with period 3 in a
\* cyclic permutation of (A, B, C).
C11_CreationOrder == AllCreated => Periodic(task_hist.trace, ABC)

\* C11 (amended): the tasks become current with period 3 in a cyclic
\* permutation of (C, B, A), the reverse of the creation order.
C11_ReverseOrder == AllCreated => Periodic(task_hist.trace, <<ABC[3], ABC[2], ABC[1]>>)

\* two full rounds of switches among the three tasks have been recorded
C11_Witness ==
    /\ AllCreated /\ task_hist.op = "yield"
    /\ Len(task_hist.trace) >= 2 * Len(ABC)

----------------------------------------------------------------------------
(* Locks held where the scheduler leaves its own data                       *)

LogEvents(evs) == {i \in 1 .. Len(task.log) : task.log[i].ev \in evs}

\* C12: wherever schedule() performs a context switch, by switch_to or by
\* the jump into the first task, the switching context holds no spin lock.
C12_NoLockAcrossSwitch ==
    \A i \in LogEvents({"switch_to", "jump"}) : task.log[i].held = {}

\* schedule() has switched from one task to another
C12_Witness ==
    /\ task_hist.op = "schedule"
    /\ LogEvents({"switch_to"}) # {}
    /\ task_hist.before # NoTask /\ task.current_task # task_hist.before

\* C13: when the current task calls task_exit while another task is in the
\* ready queue, it is marked Zombie and removed from the queue, the
\* schedule() call inside task_exit makes a different task current, and a
\* task that has exited and is no longer current never becomes current again.
C13_ExitSwitchesAway ==
    [][/\ (/\ task_hist'.op = "task_exit"
           /\ task.current_task \in Members
           /\ Cardinality(Members) >= 2)
          => /\ task'.tasks[task.current_task].state = "TASK_ZOMBIE"
             /\ task.current_task \notin Members'
             /\ task'.current_task # task.current_task
             /\ task'.current_task \in Members'
       /\ \A t \in DOMAIN task.tasks :
              (task.tasks[t].state = "TASK_ZOMBIE" /\ task.current_task # t)
                  => task'.current_task # t]_vars

\* the client keeps calling as long as some call changes the state
SpecTaskFair == SpecTask /\ WF_vars(NextTask)

\* a task that called task_exit: a zombie whose descriptor is still allocated
Exited(t) == task.tasks[t].state = "TASK_ZOMBIE" /\ task.tasks[t].alloc

\* C14: once a task has exited while another task is ready to take over,
\* its stack and descriptor are eventually freed (unless the kernel stops),
\* and task resources are freed only while neither runqueue_lock nor
\* current_task_lock is held.
C14_ExitedFreed ==
    /\ \A t \in 1 .. MaxTasks :
           (Exited(t) /\ task.runqueue # NoTask)
               ~> (~task.tasks[t].alloc \/ task.halted)
    /\ [](\A i \in LogEvents({"free_stack", "free_task"}) :
              task.log[i].held \cap {"runqueue_lock", "current_task_lock"} = {})

\* nothing but the record of the call itself differs between T0 and T1
SameTasks(T0, T1) == [T1 EXCEPT !.log = <<>>] = [T0 EXCEPT !.log = <<>>]

NamesCurrent(pid) ==
    task.current_task # NoTask /\ task.tasks[task.current_task].pid = pid

InQueue(pid) == \E t \in Members : task.tasks[t].pid = pid

Killed(pid) == CHOOSE t \in Members : task.tasks[t].pid = pid

\* C15: kill_task(pid) returns -2 and changes nothing if pid names the
\* current task; returns -1 and changes nothing if pid <= 0 or no task in
\* the ready queue has that pid; otherwise returns 0 with the target marked
\* Zombie, unlinked from the queue, and its stack and descriptor freed after
\* runqueue_lock was released.
C15_KillTask ==
    [][\A pid \in 0 .. MaxPid :
          KillTask(pid) =>
              IF pid > 0 /\ NamesCurrent(pid)
              THEN task_hist'.ret = -2 /\ SameTasks(task, task')
              ELSE IF pid <= 0 \/ ~InQueue(pid)
              THEN task_hist'.ret = -1 /\ SameTasks(task, task')
              ELSE /\ task_hist'.ret = 0
                   /\ task'.tasks[Killed(pid)].state = "TASK_ZOMBIE"
                   /\ Killed(pid) \notin Members'
                   /\ ~task'.tasks[Killed(pid)].alloc
                   /\ \E i, j \in 1 .. Len(task'.log) :
                          /\ task'.log[i] = [ev |-> "free_stack", t |-> Killed(pid), held |-> {}]
                          /\ task'.log[j] = [ev |-> "free_task", t |-> Killed(pid), held |-> {}]
      ]_vars

\* C16: a task_create whose descriptor or stack allocation fails returns
\* NULL and leaves the ready queue, next_pid, tasks_exist and current_task
\* as they were, and the descriptor of the failed attempt is not live.
C16_CreateFailure ==
    [][\A memory \in 0 .. MaxTasks :
          (TaskCreate(memory, FALSE) \/ (memory = NoTask /\ TaskCreate(memory, TRUE))) =>
              /\ task_hist'.ret = NoTask
              /\ Ring(task') = Ring(task)
              /\ task'.runqueue = task.runqueue
              /\ task'.next_pid = task.next_pid
              /\ task'.tasks_exist = task.tasks_exist
              /\ task'.current_task = task.current_task
              /\ \A t \in DOMAIN task.tasks : task'.tasks[t].alloc = task.tasks[t].alloc
      ]_vars

----------------------------------------------------------------------------
(* Specification: a task's stack is prepared, then the task is dispatched *)

CoreIdle ==
    /\ Boot(PagingMaps, {1200000}) /\ RtInit /\ PagingIdle /\ HeapInit /\ TaskIdle
    /\ pmm_last = [op |-> "boot", count |-> 0, ret |-> NULL, wasFree |-> TRUE, low |-> FALSE]

\* the block malloc(8192) returns follows a 24-byte header, so it is 8-byte
\* aligned; both residues modulo 16 occur
StackBases == {HEAP_AREA + HEADER_SIZE + WORD * i : i \in 0 .. MaxStackShift}
EntryFuncs == {HEAP_AREA - 4096 * i : i \in 1 .. MaxFuncs}
\* what a word that was never written may hold
StaleWords == EntryFuncs \cup {0, HEAP_MAGIC}
\* stack pointers of the context that is running when the switch is made
RunningSps == {HEAP_AREA - 256 * i : i \in 1 .. 2}

StackCreate(stack, func) ==
    /\ stk' = [stk EXCEPT !.phase = "created", !.t = InitialStack(stack, func),
                          !.ret_at = 0, !.regs = <<>>, !.prev_rsp = 0]
    /\ UNCHANGED <<core_vars, but_stk>>

SwitchTo(junk) ==
    /\ stk.phase = "created"
    /\ LET r == switch_to(stk.cpu, stk.t.words, stk.t.context, junk)
       IN  stk' = [stk EXCEPT !.phase = "switched", !.cpu = r.cpu,
                              !.t.words = r.words, !.ret_at = r.ret_at,
                              !.regs = r.regs, !.prev_rsp = r.prev_rsp]
    /\ UNCHANGED <<core_vars, but_stk>>

FirstJump ==
    /\ stk.phase = "created"
    /\ stk' = [stk EXCEPT !.phase = "jumped", !.cpu = FirstTaskJump(stk.t.context)]
    /\ UNCHANGED <<core_vars, but_stk>>

\* the dispatched task runs on; the CPU is later back in another context
Resume(sp) ==
    /\ stk.phase \in {"switched", "jumped"}
    /\ stk' = [stk EXCEPT !.phase = "none", !.cpu = [rsp |-> sp, rip |-> 0]]
    /\ UNCHANGED <<core_vars, but_stk>>

InitStack ==
    /\ CoreIdle /\ SideIdleBut("stk")
    /\ \E sp \in RunningSps :
           stk = [phase |-> "none", t |-> NoStack, cpu |-> [rsp |-> sp, rip |-> 0],
                  ret_at |-> 0, regs |-> <<>>, prev_rsp |-> 0]

NextStack ==
    \/ \E stack \in StackBases, func \in EntryFuncs : StackCreate(stack, func)
    \/ \E junk \in StaleWords : SwitchTo(junk)
    \/ FirstJump
    \/ \E sp \in RunningSps : Resume(sp)

SpecStack == InitStack /\ [][NextStack]_vars

\* C17: the first switch_to into a context built by task_create continues at
\* func: the word its return pops holds the entry function's address and lies
\* inside the task's own stack allocation.
C17_FirstSwitchReturnsToFunc ==
    stk.phase = "switched" =>
        /\ stk.cpu.rip = stk.t.func
        /\ stk.ret_at >= stk.t.stack
        /\ stk.ret_at + WORD <= stk.t.stack + STACK_SIZE

----------------------------------------------------------------------------
(* Specification: boot, then keyboard interrupts on one CPU *)

Scancodes == {"shift_down", "shift_up", "press", "release"}

\* a device raises its line at the PIC
IrqRaise(irqno) ==
    /\ irqno \notin irq.irr
    /\ irq' = [irq EXCEPT !.irr = @ \cup {irqno}]
    /\ UNCHANGED <<core_vars, but_irq>>

\* the PIC delivers an unmasked pending line when the CPU accepts interrupts
\* and no interrupt is in service
IrqDeliver(irqno) ==
    /\ irq.rflags_if
    /\ irqno \in irq.irr \ irq.mask
    /\ irq.isr = {}
    /\ irq' = Interrupt(irq, irqno)
    /\ UNCHANGED <<core_vars, but_irq>>

\* the boot and idle context executes its next step
TaskRun ==
    /\ Len(irq.frames) = 1
    /\ irq' = Exec(irq, "release")
    /\ irq' # irq
    /\ UNCHANGED <<core_vars, but_irq>>

\* the interrupt handler executes its next step
HandlerRun(code) ==
    /\ Len(irq.frames) > 1
    /\ irq' = Exec(irq, code)
    /\ irq' # irq
    /\ UNCHANGED <<core_vars, but_irq>>

InitIrq ==
    /\ CoreIdle /\ SideIdleBut("irq")
    /\ \E m \in SUBSET IRQS : irq = [IrqReset EXCEPT !.mask = m]

NextIrq ==
    \/ \E irqno \in IRQS : IrqRaise(irqno)
    \/ \E irqno \in IRQS : IrqDeliver(irqno)
    \/ TaskRun
    \/ \E code \in Scancodes : HandlerRun(code)

SpecIrq == InitIrq /\ [][NextIrq]_vars

HandlerAt(op) == Len(irq.frames) > 1 /\ CurrentOp(irq) = op

----------------------------------------------------------------------------
(* Specification: contexts contend for one spin lock *)

Ctxs == 1 .. MaxCtx

\* a context enters spinlock_acquire
SpinCallAcquire(c) ==
    /\ spin.pc[c] = "idle"
    /\ spin' = [spin EXCEPT !.pc[c] = "spinning"]
    /\ UNCHANGED <<core_vars, but_spin>>

\* one iteration of the loop of spinlock_acquire: the function returns
\* (ret = 1) when the test after the compare-and-swap succeeds, and pauses
\* and tries again otherwise
SpinAcquireIter(c) ==
    /\ spin.pc[c] = "spinning"
    /\ LET r == AcquireIter(spin.word)
       IN  spin' = [word |-> r.word,
                    pc |-> [spin.pc EXCEPT ![c] = IF r.done THEN "holding"
                                                  ELSE "spinning"],
                    last |-> [c |-> c, op |-> "acquire", old |-> spin.word,
                              new |-> r.word, ret |-> IF r.done THEN 1 ELSE 0]]
    /\ UNCHANGED <<core_vars, but_spin>>

SpinTryAcquire(c) ==
    /\ spin.pc[c] = "idle"
    /\ LET r == spinlock_try_acquire(spin.word)
       IN  spin' = [word |-> r.word,
                    pc |-> [spin.pc EXCEPT ![c] = IF r.ret = 1 THEN "holding"
                                                  ELSE "idle"],
                    last |-> [c |-> c, op |-> "try_acquire", old |-> spin.word,
                              new |-> r.word, ret |-> r.ret]]
    /\ UNCHANGED <<core_vars, but_spin>>

\* the holder leaves its critical section
SpinRelease(c) ==
    /\ spin.pc[c] = "holding"
    /\ spin' = [word |-> spinlock_release(spin.word),
                pc |-> [spin.pc EXCEPT ![c] = "idle"],
                last |-> [c |-> c, op |-> "release", old |-> spin.word,
                          new |-> spinlock_release(spin.word), ret |-> 0]]
    /\ UNCHANGED <<core_vars, but_spin>>

InitSpin == CoreIdle /\ SideIdle

NextSpin ==
    \E c \in Ctxs :
        \/ SpinCallAcquire(c)
        \/ SpinAcquireIter(c)
        \/ SpinTryAcquire(c)
        \/ SpinRelease(c)

SpecSpin == InitSpin /\ [][NextSpin]_vars

Holders == {c \in Ctxs : spin.pc[c] = "holding"}

\* C19: at most one context is between a successful acquire or try_acquire
\* and its release; a return from spinlock_acquire follows a compare-and-swap
\* that changed the word from 0 to 1; spinlock_try_acquire returns 1 exactly
\* when it changed the word from 0 to 1, and otherwise returns 0 and leaves
\* the word as it was.
C19_MutualExclusion ==
    /\ Cardinality(Holders) <= 1
    /\ (Holders # {}) = (spin.word = 1)
    /\ (spin.last.op = "acquire" /\ spin.last.ret = 1) =>
           spin.last.old = 0 /\ spin.last.new = 1
    /\ spin.last.op = "try_acquire" =>
           /\ (spin.last.ret = 1) = (spin.last.old = 0 /\ spin.last.new = 1)
           /\ spin.last.ret \in {0, 1}
           /\ spin.last.ret = 0 => spin.last.new = spin.last.old

\* one context holds the lock, a second has just failed spinlock_try_acquire
\* and a third is spinning in spinlock_acquire
C19_Witness ==
    /\ Cardinality(Holders) = 1
    /\ spin.last.op = "try_acquire" /\ spin.last.ret = 0
    /\ \E c \in Ctxs : spin.pc[c] = "spinning"

----------------------------------------------------------------------------
(* Specification: a context calls the memory routines one after another *)

TABLE_LEVELS == 3
GrowSteps == [ok : BOOLEAN, tables : 0 .. TABLE_LEVELS]
\* the calls of vmm_alloc one walk of malloc can make: all but the last
\* succeed, and a failed call maps nothing
GrowRuns ==
    {g \in UNION {[1 .. n -> GrowSteps] : n \in 0 .. MaxGrow} :
        \A i \in DOMAIN g : /\ (i < Len(g) => g[i].ok)
                            /\ (~g[i].ok => g[i].tables = 0)}

PmmRoutines == {"pmm_mark_free", "pmm_mark_used", "pmm_alloc_page",
                "pmm_alloc_pages", "pmm_free_page"}

Entry(op) == [op |-> op, held |-> mlk.held, log |-> <<>>]

MemMalloc(size, grows) ==
    /\ mlk' = MallocLocks(Entry("malloc"), size, grows)
    /\ UNCHANGED <<core_vars, but_mlk>>

MemFree(ptr) ==
    /\ mlk' = FreeLocks(Entry("free"), ptr)
    /\ UNCHANGED <<core_vars, but_mlk>>

MemVmmAlloc(ok, tables) ==
    /\ mlk' = VmmAllocLocks(Entry("vmm_alloc"), ok, tables)
    /\ UNCHANGED <<core_vars, but_mlk>>

\* vmm_map, vmm_map_range and paging_map_range come down to paging_map
MemVmmMap(routine, tables) ==
    /\ mlk' = PagingMapLocks(Entry(routine), tables)
    /\ UNCHANGED <<core_vars, but_mlk>>

MemPmm(routine) ==
    /\ mlk' = PmmLocked(Entry(routine))
    /\ UNCHANGED <<core_vars, but_mlk>>

InitMem == CoreIdle /\ SideIdle

NextMem ==
    \/ \E size \in {0, 24}, grows \in GrowRuns : MemMalloc(size, grows)
    \/ \E ptr \in {0, 1} : MemFree(ptr)
    \/ \E g \in GrowSteps : (g.ok \/ g.tables = 0) /\ MemVmmAlloc(g.ok, g.tables)
    \/ \E routine \in {"vmm_map", "vmm_map_range", "paging_map_range"},
          tables \in 0 .. TABLE_LEVELS : MemVmmMap(routine, tables)
    \/ \E routine \in PmmRoutines : MemPmm(routine)

SpecMem == InitMem /\ [][NextMem]_vars

Acquired(l) == {i \in DOMAIN mlk.log : mlk.log[i].lock = l}

\* C20: the memory locks are taken in the order PMM, VMM, heap: pmm_lock is
\* never acquired while vmm_lock or heap_lock is held, and vmm_lock is never
\* acquired while heap_lock is held.
C20_PmmFirst ==
    /\ \A i \in Acquired("pmm_lock") :
           mlk.log[i].held \cap {"vmm_lock", "heap_lock"} = {}
    /\ \A i \in Acquired("vmm_lock") : "heap_lock" \notin mlk.log[i].held

\* C20 (amended): the memory locks are taken in the order heap, VMM, PMM:
\* heap_lock is never acquired while vmm_lock or pmm_lock is held, and
\* vmm_lock is never acquired while pmm_lock is held.
C20_HeapFirst ==
    /\ \A i \in Acquired("heap_lock") :
           mlk.log[i].held \cap {"vmm_lock", "pmm_lock"} = {}
    /\ \A i \in Acquired("vmm_lock") : "pmm_lock" \notin mlk.log[i].held

\* malloc grew the heap: pmm_lock was taken under heap_lock and vmm_lock
C20_Witness ==
    \E i \in Acquired("pmm_lock") : mlk.log[i].held = {"heap_lock", "vmm_lock"}

----------------------------------------------------------------------------
(* Specification: contexts run the scheduler's routines in any interleaving *)

TaskRoutines == {"schedule", "task_exit", "kill_task", "find_task_by_pid",
                 "get_current_task", "get_current_pid", "add_task_to_runqueue"}

TlkCall(c, op, has_current) ==
    /\ tlk.ctx[c].prog = <<>>
    /\ tlk' = [tlk EXCEPT !.ctx[c] = [op |-> op, prog |-> LockSteps(op, has_current),
                                      holds |-> tlk.ctx[c].holds]]
    /\ UNCHANGED <<core_vars, but_tlk>>

TlkRun(c) ==
    /\ tlk.ctx[c].prog # <<>>
    /\ tlk' = TlkStep(tlk, c)
    /\ tlk' # tlk
    /\ UNCHANGED <<core_vars, but_tlk>>

InitTlk == CoreIdle /\ SideIdle

NextTlk ==
    \E c \in 1 .. MaxTlkCtx :
        \/ \E op \in TaskRoutines, has_current \in BOOLEAN :
               (has_current \/ op = "task_exit") /\ TlkCall(c, op, has_current)
        \/ TlkRun(c)

SpecTlk == InitTlk /\ [][NextTlk]_vars

Active == {c \in 1 .. MaxTlkCtx : tlk.ctx[c].prog # <<>>}
CanStep(c) == TlkStep(tlk, c) # tlk

\* C21: runqueue_lock is acquired before current_task_lock whenever both are
\* held, no context acquires runqueue_lock while it holds current_task_lock,
\* and no interleaving of the routines leaves the contexts waiting for each
\* other on the two locks.
C21_LockOrder ==
    /\ \A c \in 1 .. MaxTlkCtx :
           /\ tlk.ctx[c].holds # <<"current_task_lock", "runqueue_lock">>
           /\ (c \in Active /\ Head(tlk.ctx[c].prog) = Acq("runqueue_lock"))
                  => tlk.ctx[c].holds = <<>>
    /\ Active # {} => \E c \in Active : CanStep(c)

\* one context holds both locks inside schedule while another waits for
\* current_task_lock inside task_exit
C21_Witness ==
    \E c, d \in Active :
        /\ tlk.ctx[c].op = "schedule"
        /\ tlk.ctx[c].holds = <<"runqueue_lock", "current_task_lock">>
        /\ tlk.ctx[d].op = "task_exit"
        /\ ~CanStep(d)

----------------------------------------------------------------------------
(* Specification: keyboard interrupts and the consumer of the mailbox *)

\* a, b, both left shift codes, the release of a, left arrow, backspace, a
\* code past the table and a code whose table entry is zero
KbdCodes == {30, 48, LSHIFT_DOWN, LSHIFT_UP, 30 + RELEASE_BIT, SC_LEFT,
             SC_BACKSPACE, 58, 0}

KbdInterrupt(data_ready, scancode) ==
    /\ kbd' = keyboard_handler_run(kbd, data_ready, scancode)
    /\ UNCHANGED <<core_vars, but_kbd>>

KbdConsume ==
    /\ kbd' = [process_pending_key(kbd) EXCEPT !.last = KbdReset.last]
    /\ UNCHANGED <<core_vars, but_kbd>>

\* the kernel marks the system ready
KbdReady ==
    /\ kbd.system_ready = 0
    /\ kbd' = [kbd EXCEPT !.system_ready = 1, !.last = KbdReset.last]
    /\ UNCHANGED <<core_vars, but_kbd>>

InitKbd == CoreIdle /\ SideIdle

NextKbd ==
    \/ \E data_ready \in BOOLEAN, scancode \in KbdCodes :
           KbdInterrupt(data_ready, scancode)
    \/ KbdConsume
    \/ KbdReady

SpecKbd == InitKbd /\ [][NextKbd]_vars

\* the handler's last run stored into the mailbox
Wrote == kbd.last.ran /\ kbd.pending_key # kbd.last.before
\* the byte the last run's scan code stands for, 0 for none
Produced ==
    IF /\ kbd.last.data_ready
       /\ kbd.last.scancode < RELEASE_BIT
       /\ kbd.last.scancode \notin {LSHIFT_DOWN, RSHIFT_DOWN}
    THEN KeyOf(kbd.last.shift, kbd.last.scancode)
    ELSE 0

\* C22: the handler deposits a produced byte in pending_key if and only if
\* system_ready is set and the slot is empty; a byte that is deposited and
\* not yet consumed is never overwritten.
C22_MailboxOneSlot ==
    kbd.last.ran =>
        /\ kbd.last.before # 0 => kbd.pending_key = kbd.last.before
        /\ (Produced # 0 /\ kbd.last.ready = 1 /\ kbd.last.before = 0)
               => kbd.pending_key = Produced
        /\ kbd.last.ready = 0 => kbd.pending_key = kbd.last.before

----------------------------------------------------------------------------
(* Specification: every scan code, with the consumer reading in between *)

AllCodes == 0 .. 255

KeysInterrupt(scancode) ==
    /\ kbd.pending_key = 0
    /\ kbd' = keyboard_handler_run(kbd, TRUE, scancode)
    /\ UNCHANGED <<core_vars, but_kbd>>

InitKeys ==
    /\ CoreIdle /\ SideIdleBut("kbd")
    /\ \E ready \in {0, 1} : kbd = [KbdReset EXCEPT !.system_ready = ready]

NextKeys ==
    \/ \E scancode \in AllCodes : KeysInterrupt(scancode)
    \/ KbdConsume

SpecKeys == InitKeys /\ [][NextKeys]_vars

InTable(c) == c < Len(scancode_to_ascii) /\ scancode_to_ascii[c + 1] # 0

\* C23: with the system ready, a key-down scan code below 0x80 with a
\* non-zero table entry yields scancode_to_ascii[c] without shift and
\* scancode_to_ascii_shift[c] with shift; 0x4B and 0x4D yield -1 and -2;
\* release codes and the shift codes never yield a key.
C23_Translation ==
    LET c == kbd.last.scancode
    IN  kbd.last.ran =>
            /\ (kbd.last.ready = 1 /\ InTable(c)) =>
                   kbd.pending_key = IF kbd.last.shift = 1
                                     THEN scancode_to_ascii_shift[c + 1]
                                     ELSE scancode_to_ascii[c + 1]
            /\ (kbd.last.ready = 1 /\ c = SC_LEFT) => kbd.pending_key = 0 - 1
            /\ (kbd.last.ready = 1 /\ c = SC_RIGHT) => kbd.pending_key = 0 - 2
            /\ (c >= RELEASE_BIT \/ c \in {LSHIFT_DOWN, RSHIFT_DOWN}) =>
                   kbd.pending_key = kbd.last.before

\* shift is held and the key-down code of the letter a has just produced A
C23_Witness ==
    /\ kbd.last.ran /\ kbd.last.ready = 1
    /\ kbd.last.scancode = 30 /\ kbd.last.shift = 1
    /\ kbd.pending_key = 65

----------------------------------------------------------------------------
(* Specification: two contexts call paging_map, in any interleaving *)

\* the first context maps the page with all indices 0, the second a page
\* that shares three, two, one or none of the intermediate tables with it
MapVas == {<<0, 0, 0, 1>>, <<0, 0, 1, 0>>, <<0, 1, 0, 0>>, <<1, 0, 0, 0>>}

CmapCall(c, va) ==
    /\ cmap.ctx[c].pc = "idle"
    /\ cmap' = [cmap EXCEPT !.ctx[c] = [CmapIdleCtx EXCEPT !.pc = "test", !.va = va,
                                                          !.phys = c]]
    /\ UNCHANGED <<core_vars, but_cmap>>

CmapRun(c) ==
    /\ cmap.ctx[c].pc \notin {"idle", "done"}
    /\ cmap' = MapStep(cmap, c)
    /\ UNCHANGED <<core_vars, but_cmap>>

InitCmap == CoreIdle /\ SideIdle

NextCmap ==
    \/ CmapCall(1, <<0, 0, 0, 0>>)
    \/ \E va \in MapVas : CmapCall(2, va)
    \/ \E c \in 1 .. 2 : CmapRun(c)

SpecCmap == InitCmap /\ [][NextCmap]_vars

BothMapped == \A c \in 1 .. 2 : cmap.ctx[c].pc = "done"
PointedAt(tables) == {cmap.tbl[t][i] : t \in tables, i \in MapIdx} \ {0}
Linked ==
    PointedAt({0}) \cup PointedAt(PointedAt({0}))
                   \cup PointedAt(PointedAt(PointedAt({0})))

\* C24: when two paging_map calls have run in any interleaving, both leaf
\* mappings are present and every table frame that was allocated is linked
\* into the tree: one frame for each missing entry, none lost and none
\* leaked.
C24_ConcurrentMap ==
    BothMapped =>
        /\ \A c \in 1 .. 2 : MapWalk(cmap.tbl, 0, cmap.ctx[c].va, 1) = cmap.ctx[c].phys
        /\ Linked = 1 .. cmap.next - 1

----------------------------------------------------------------------------
(* idt_init, called once at the start of kmain                              *)

IdtInitStep ==
    /\ idt.pc # "done"
    /\ idt' = IdtStep(idt)
    /\ UNCHANGED <<core_vars, but_idt>>

InitIdt ==
    /\ CoreIdle /\ SideIdleBut("idt")
    /\ \E l \in StubLayouts : idt = IdtEntry(l)

NextIdt == IdtInitStep

SpecIdt == InitIdt /\ [][NextIdt]_vars

IdtLoaded == idt.pc = "done"

\* the stub a vector's gate points at, "none" when it points at no stub
StubOf(v) ==
    IF \E n \in DOMAIN idt.stubs : Words(idt.stubs[n]) = GateTarget(GateAt(idt.table, v))
    THEN CHOOSE n \in DOMAIN idt.stubs : Words(idt.stubs[n]) = GateTarget(GateAt(idt.table, v))
    ELSE "none"

\* the part of C30 about the table as a whole: 256 gates of type 0x8E,
\* selector 0x08, IST 0, loaded into IDTR
IdtGates ==
    /\ idt.idtr = [limit |-> 4095, base |-> "idt"]
    /\ \A v \in 0 .. 255 :
           /\ GateAt(idt.table, v).attributes = 142
           /\ GateAt(idt.table, v).kernel_cs = 8
           /\ GateAt(idt.table, v).ist = 0
           /\ StubOf(v) # "none"

\* C30: after idt_init the 256-entry IDT is loaded, every entry has type
\* 0x8E, selector 0x08 and IST 0, vector 14 points at the page-fault stub,
\* vector 0x21 at the keyboard stub and vector 0x20 at a timer stub, one
\* that calls the timer tick handler.
C30_IdtVectors ==
    IdtLoaded =>
        /\ IdtGates
        /\ StubOf(14) = "page_fault_isr"
        /\ StubOf(33) = "keyboard_isr"
        /\ StubCalls(StubOf(PIC1_VECTOR_OFFSET + IRQ_TIMER)) = "scheduler_tick"

----------------------------------------------------------------------------
(* kmain from its entry to the idle loop                                    *)

KmainRun ==
    LET r == KmainStep(kboot, [pmm |-> pmm, boot |-> boot, heap |-> heap, idt |-> idt])
    IN  /\ ~(kboot.pc = "spin" /\ kboot.spun)
        /\ ~(kboot.pc = "hlt" /\ kboot.halted)
        /\ kboot' = r.K
        /\ pmm' = r.S.pmm
        /\ boot' = r.S.boot
        /\ heap' = r.S.heap
        /\ idt' = r.S.idt
        /\ UNCHANGED <<pmm_last, rt, paging_vars, heap_hist, task_vars,
                       stk, irq, spin, mlk, tlk, kbd, cmap, side_rest>>

InitBoot ==
    /\ pmm = PmmStatic
    /\ boot = [bitmap_phys |-> 0, b_end |-> 0]
    /\ heap = HeapStatic
    /\ heap_hist = [live |-> {}, op |-> "init", size |-> 0, ret |-> NULL, pmm_free |-> 0]
    /\ LastInit /\ RtInit /\ PagingIdle /\ TaskIdle
    /\ SideIdleBut("kboot")
    /\ \E magic \in BootMagics, tags \in BootStreams, kernel_phys_end \in KernelEnds :
           kboot = KbootEntry(magic, tags, kernel_phys_end)

NextBoot == KmainRun

SpecBoot == InitBoot /\ [][NextBoot]_vars

InLog(call) == \E n \in 1 .. Len(kboot.log) : kboot.log[n] = call

\* C28: entered with a magic other than 0x36D76289, kmain never parses the
\* memory map, never initializes the PMM, the VMM or the heap, never starts
\* the shell and never enables interrupts, and once it is in its loop it
\* stays there.
C28_BadMagic ==
    /\ [](kboot.magic # 920085129 =>
              /\ ~InLog("parse_mmap") /\ kboot.mmap_tag = 0 /\ kboot.max_physical_addr = 0
              /\ ~InLog("pmm_init") /\ ~InLog("seed") /\ pmm = PmmStatic
              /\ ~InLog("vmm_init") /\ ~kboot.cr3
              /\ ~InLog("heap_init") /\ heap = HeapStatic
              /\ ~InLog("shell_init")
              /\ ~kboot.rflags_if
              /\ kboot.pc \in {"idt_init", "gdt_init", "clear_screen", "magic", "spin"})
    /\ [][(kboot.magic # 920085129 /\ kboot.pc = "spin") => kboot'.pc = "spin"]_vars

\* the loop of kernel.c:27 has been entered and has gone round
C28_Witness ==
    /\ kboot.magic # 920085129
    /\ kboot.pc = "spin" /\ kboot.spun
    /\ Len(kboot.tags) = 3
    /\ idt.pc = "done"

\* the calls of want appear in the log, in the order of want
RECURSIVE InOrder(_, _)
InOrder(log, want) ==
    IF want = <<>> THEN TRUE
    ELSE IF log = <<>> THEN FALSE
    ELSE IF Head(log) = Head(want) THEN InOrder(Tail(log), Tail(want))
    ELSE InOrder(Tail(log), want)

\* C29: a valid boot that has reached the idle loop has run IDT, GDT and PIC
\* setup, memory map parsing, PMM init and seeding, VMM init, heap init,
\* timer init, keyboard init, creation of the first task and the enabling
\* of interrupts, in this order.
C29_BootOrder ==
    (kboot.pc = "hlt" /\ kboot.mmap_tag # 0) =>
        /\ InOrder(kboot.log, <<"idt_init", "gdt_init", "parse_mmap", "pmm_init", "seed",
                                "vmm_init", "heap_init", "timer_init", "keyboard_init",
                                "task_create", "sti">>)
        /\ kboot.rflags_if

----------------------------------------------------------------------------
(* A task that calls yield() while the timer interrupt calls scheduler_tick *)

YieldRun ==
    /\ ~task.halted
    /\ yld' = YieldStep(yld, task).Y
    /\ task' = YieldStep(yld, task).T
    /\ UNCHANGED <<pmm_vars, paging_vars, heap_vars, task_hist, but_yld>>

TickIrq ==
    /\ ~task.halted
    /\ task' = scheduler_tick(task)
    /\ yld' = [yld EXCEPT !.pending = @ \/ Raises(task),
                          !.mid = @ \/ (Raises(task) /\ yld.pc # "idle"),
                          !.tickbit = ~@,
                          !.counted = IF task.tasks_exist # 0 THEN (@ + 1) % 25 ELSE @]
    /\ UNCHANGED <<pmm_vars, paging_vars, heap_vars, task_hist, but_yld>>

TickCreate == yld.pc = "idle" /\ CreateNext

InitTick == InitTask

NextTick ==
    \/ TickCreate
    \/ TickIrq
    \/ YieldRun

SpecTick == InitTick /\ [][NextTick]_vars

Returns == yld.pc # "idle" /\ yld'.pc = "idle"

\* a request is pending only while the flag is set or schedule() is the
\* statement about to run
NoLostRequest == (yld.pending /\ task.need_schedule = 0) => yld.pc = "schedule"

\* C31: every call of yield() returns with need_schedule clear and has
\* called schedule(), and no request raised by scheduler_tick is lost
\* without a call of schedule() following it.
C31_YieldAtomic ==
    /\ [][Returns => (task'.need_schedule = 0 /\ yld'.scheduled)]_vars
    /\ []NoLostRequest

\* C31 (amended): a call of yield() calls schedule() exactly when it found
\* need_schedule set, after clearing it; a request raised by scheduler_tick,
\* also one raised while yield() runs, stays pending until a yield() has
\* cleared it and is about to call schedule().
C31_NoLostRequest ==
    /\ [][Returns => /\ yld'.scheduled <=> (yld'.found # 0)
                     /\ (~yld'.mid /\ yld'.found # 0) => task'.need_schedule = 0]_vars
    /\ []NoLostRequest

\* yield() has called schedule() and a tick that ran between its statements
\* has raised the next request, which is still pending
C31_Witness ==
    /\ yld.pc = "idle" /\ yld.scheduled /\ yld.mid
    /\ yld.pending /\ task.need_schedule = 1
    /\ task.current_task # NoTask

Ticked == yld'.tickbit # yld.tickbit

\* C32: scheduler_tick takes no lock and changes nothing but its tick
\* counter and need_schedule: the ready queue, current_task, next_pid and
\* tasks_exist stay as they are; it sets need_schedule on every 25th tick
\* counted while tasks exist and on no other tick.
C32_TickFrame ==
    [][Ticked =>
           /\ task' = [task EXCEPT !.counter = task'.counter,
                                   !.need_schedule = task'.need_schedule]
           /\ task'.locks = {} /\ task'.log = task.log
           /\ task'.need_schedule =
                  IF task.tasks_exist # 0 /\ yld'.counted = 0 THEN 1
                  ELSE task.need_schedule]_vars

\* the 25th counted tick has set the flag, after ticks that were not
\* counted and with a non-empty ready queue and a current task
C32_Witness ==
    /\ yld.counted = 0 /\ task.counter = 0 /\ yld.pending
    /\ task.need_schedule = 1 /\ yld.pc = "idle" /\ ~yld.scheduled
    /\ task.runqueue # NoTask /\ Len(Ring(task)) = 3

----------------------------------------------------------------------------
(* The ready queue as a data structure                                      *)

\* the tasks that were created and have neither exited nor been killed
Queued ==
    {t \in DOMAIN task.tasks : task.tasks[t].alloc /\ task.tasks[t].state = "TASK_RUNNING"}

\* C33: after any sequence of task_create, task_exit and kill_task the ready
\* queue is a circular doubly linked list: runqueue is NULL exactly when it
\* has no member, next and prev of every member are inverse to each other,
\* following next from runqueue visits every member once and comes back to
\* runqueue, and a task that was removed has next = prev = NULL.
C33_RingWellFormed ==
    /\ (task.runqueue = NoTask) <=> (Queued = {})
    /\ Members = Queued
    /\ \A i, j \in 1 .. Len(Ring(task)) : i # j => Ring(task)[i] # Ring(task)[j]
    /\ \A t \in Queued :
           /\ task.tasks[t].next \in Queued /\ task.tasks[t].prev \in Queued
           /\ task.tasks[task.tasks[t].next].prev = t
           /\ task.tasks[task.tasks[t].prev].next = t
    /\ Ring(task) # <<>> => task.tasks[Ring(task)[Len(Ring(task))]].next = task.runqueue
    /\ \A t \in DOMAIN task.tasks \ Queued :
           task.tasks[t].next = NoTask /\ task.tasks[t].prev = NoTask

\* the middle one of three tasks was killed, another one has exited, and one
\* task is left in the queue
C33_Witness ==
    /\ task_hist.op \in {"kill_task", "task_exit"}
    /\ Cardinality(Queued) = 1
    /\ \E t \in DOMAIN task.tasks : task.tasks[t].state = "TASK_ZOMBIE" /\ ~task.tasks[t].alloc
    /\ \E t \in DOMAIN task.tasks : task.tasks[t].state = "TASK_ZOMBIE" /\ task.tasks[t].alloc

\* C34: between the operations of the task subsystem current_task is NULL
\* or points to a member of the ready queue that is not a zombie.
C34_CurrentInQueue ==
    task.current_task # NoTask =>
        /\ task.current_task \in Members
        /\ task.tasks[task.current_task].state # "TASK_ZOMBIE"

----------------------------------------------------------------------------
(* vmm_alloc and the frames behind its pages                                *)

\* page counts of the calls; 9 is more than pmm_alloc_pages finds in a byte
VmmPages == {1, 2, 9}
VmmFlags == {3}
\* pages the cursor may have moved before the last call
MaxVmmPages == 3

\* a machine with 12 frames of RAM above 2 MiB
VmmMaps == { <<[addr |-> LOW_LIMIT, len |-> 12 * PAGE_SIZE]>> }

\* vmm_alloc(pages, flags); vmc keeps what the caller saw: the frames are
\* the physical address of the run pmm_alloc_pages marked, cursor is
\* next_virt_addr at entry
VmmAlloc(pages, flags) ==
    LET p == pmm_alloc_pages(pmm, pages)
        r == vmm_alloc(StateS, hw, pages, flags)
    IN  /\ ~hw.halted
        /\ next_virt_addr.off < VMM_BASE.off + MaxVmmPages * PAGE_SIZE
        /\ pmm' = r.S.pmm
        /\ mem' = r.S.mem
        /\ next_virt_addr' = r.S.next
        /\ hw' = [hw EXCEPT !.halted = r.S.fault]
        /\ vmc' = [op |-> IF r.S.fault THEN "fault" ELSE IF r.ret = NULL THEN "failed" ELSE "mapped",
                   pages |-> pages, ret |-> r.ret,
                   frames |-> IF p.ret = NULL THEN NULL ELSE VIRT_TO_PHYS(p.ret),
                   cursor |-> next_virt_addr]
        /\ UNCHANGED <<but_vmc, boot, pmm_last, rt, pg, heap_vars, task_vars>>

InitVmm == Boot(VmmMaps, {1200000}) /\ LastInit /\ SideIdle /\ RtInit /\ PagingInit /\ HeapInit /\ TaskIdle

NextVmm ==
    \/ \E pages \in VmmPages, flags \in VmmFlags : VmmAlloc(pages, flags)
    \/ PgAllocPage

SpecVmm == InitVmm /\ [][NextVmm]_vars

\* C35: after a successful vmm_alloc(n, flags) the page at start + i * 4096
\* translates, for every i < n, to the physical address of the i-th frame
\* pmm_alloc_pages marked for the call; the range returned starts at the
\* cursor and the cursor moves past it; a failed call returns NULL and
\* leaves the cursor where it was.
C35_VmmAllocBacked ==
    /\ vmc.op = "mapped" =>
           /\ \A i \in 0 .. (vmc.pages - 1) :
                  vmm_get_phys(mem, AddOff(vmc.ret, i * PAGE_SIZE))
                      = AddOff(vmc.frames, i * PAGE_SIZE)
           /\ vmc.ret = vmc.cursor
           /\ next_virt_addr = AddOff(vmc.cursor, vmc.pages * PAGE_SIZE)
    /\ vmc.op = "failed" => vmc.ret = NULL /\ next_virt_addr = vmc.cursor

----------------------------------------------------------------------------
(* The intermediate tables paging_map links                                 *)

\* the PML4, PDPT and PD entries on the walk of virt
WalkEntries(m, virt) ==
    LET pml4e == ReadEntry(m, kernel_pml4, Pml4Idx(virt))
        pdpte == ReadEntry(m, PHYS_TO_VIRT(ENTRY_TO_PHYS(pml4e)), PdptIdx(virt))
        pde == ReadEntry(m, PHYS_TO_VIRT(ENTRY_TO_PHYS(pdpte)), PdIdx(virt))
    IN  {pml4e} \cup (IF Present(pml4e) THEN {pdpte} ELSE {})
                \cup (IF Present(pml4e) /\ Present(pdpte) /\ ~Huge(pdpte) THEN {pde} ELSE {})

\* the entries the boot code wrote
BootEntries == {OrFlags(Phys(P3_TABLE), 3), OrFlags(Phys(0), 131)}

\* C36: every present PML4, PDPT or PD entry that paging_map created holds
\* the physical address of a frame the PMM handed out for it: a frame of
\* index 512 or more that is marked used; with the PMM exhausted, too, no
\* entry is linked to a frame that was not obtained.
C36_TablesFromPmm ==
    \A virt \in MapVirts : \A e \in WalkEntries(mem, virt) \ BootEntries :
        Present(e) =>
            /\ ENTRY_TO_PHYS(e).k = 0
            /\ Block(ENTRY_TO_PHYS(e)) >= 512
            /\ BitSet(pmm, Block(ENTRY_TO_PHYS(e)))

----------------------------------------------------------------------------
(* Interrupts and exceptions delivered through the loaded IDT               *)

\* vectors delivered: exceptions with and without an error code, IRQ 0 and
\* 1, the last vector
IsrVectors == {0, 8, 13, 14, 17, 32, 33, 255}
IsrCodes == {0, 2, 5}

IsrDeliver(v, code) ==
    /\ intr.state # "running"
    /\ intr' = IsrEntry(v, StubOf(v), code)
    /\ UNCHANGED <<core_vars, but_intr>>

IsrRun ==
    /\ intr.state = "running"
    /\ intr' = IsrStep(intr)
    /\ UNCHANGED <<core_vars, but_intr>>

InitIsr ==
    /\ CoreIdle /\ SideIdleBut("idt")
    /\ \E l \in StubLayouts : idt = IdtRun(IdtEntry(l))

NextIsr ==
    \/ \E v \in IsrVectors, code \in IsrCodes : IsrDeliver(v, code)
    \/ IsrRun

SpecIsr == InitIsr /\ [][NextIsr]_vars

\* the stub has executed its iretq
AtIretq == intr.state \in {"returned", "bad_frame"}

\* C37: when a stub installed by idt_init reaches iretq, the stack holds
\* the frame the CPU pushed and nothing else (an error code was removed), and
\* every register the stub pushed has the value it had at entry; the
\* page-fault stub has passed the CPU-pushed error code to the C handler.
C37_StubBalanced ==
    AtIretq =>
        /\ intr.stack = CpuFrame
        /\ intr.state = "returned"
        /\ \A i \in DOMAIN StubCode(intr.stub) :
               StubCode(intr.stub)[i].op = "push" =>
                   intr.regs[StubCode(intr.stub)[i].r] = EntryRegs[StubCode(intr.stub)[i].r]
        /\ intr.stub = "page_fault_isr" => intr.arg = Word("err", intr.code)

----------------------------------------------------------------------------
(* Locks at the return of every function                                    *)

\* a function of the table is called from outside
LockEnter(f, p) ==
    /\ lkc.stack = <<>>
    /\ lkc' = [lkc EXCEPT !.stack = <<CallFrame(f, p)>>, !.ret = NoReturn]
    /\ UNCHANGED <<core_vars, but_lkc>>

NextEvent == lkc.stack[Len(lkc.stack)].ev[lkc.stack[Len(lkc.stack)].pc]
AtReturn == lkc.stack[Len(lkc.stack)].pc > Len(lkc.stack[Len(lkc.stack)].ev)

\* the innermost function calls another one, which takes one of its paths
LockCall(p) ==
    /\ lkc.stack # <<>> /\ ~AtReturn
    /\ NextEvent.op = "call"
    /\ p \in LockPaths[NextEvent.a]
    /\ lkc' = [lkc EXCEPT !.stack = Append([@ EXCEPT ![Len(@)].pc = @ + 1],
                                           CallFrame(NextEvent.a, p)),
                          !.ret = NoReturn]
    /\ UNCHANGED <<core_vars, but_lkc>>

LockRun ==
    /\ lkc.stack # <<>>
    /\ ~(~AtReturn /\ NextEvent.op = "call")
    /\ ~(~AtReturn /\ NextEvent.op = "acquire" /\ NextEvent.a \in lkc.held)
    /\ lkc' = LockStep(lkc)
    /\ UNCHANGED <<core_vars, but_lkc>>

AllPaths == UNION {LockPaths[f] : f \in DOMAIN LockPaths}

InitLocks == CoreIdle /\ SideIdle

NextLocks ==
    \/ \E f \in DOMAIN LockPaths : \E p \in LockPaths[f] : LockEnter(f, p)
    \/ \E p \in AllPaths : LockCall(p)
    \/ LockRun

SpecLocks == InitLocks /\ [][NextLocks]_vars

\* C38: when a function of the PMM, the VMM, the heap, the PIC driver, the
\* task subsystem or the shell returns, on whichever path, none of the locks
\* it acquired during the call is still held, and no lock is held once the
\* outermost call has returned.
C38_LocksReleased ==
    /\ lkc.ret.leaked = {}
    /\ lkc.stack = <<>> => lkc.held = {}

\* malloc has returned NULL after vmm_alloc failed inside it
C38_Witness ==
    /\ lkc.ret.fn = "malloc" /\ lkc.ret.path = "grow_failed"
    /\ lkc.stack # <<>> /\ lkc.stack[1].fn = "task_create"

----------------------------------------------------------------------------
(* The keyboard interrupt against the shell task's process_pending_key      *)

\* deposits followed
MaxDeposits == 3
\* a, b, left shift, the release of a
MbxCodes == {30, 48, LSHIFT_DOWN, 30 + RELEASE_BIT}

MbxInterrupt(data_ready, scancode) ==
    /\ Len(mbx.deposits) < MaxDeposits
    /\ kbd' = keyboard_handler_run(kbd, data_ready, scancode)
    /\ mbx' = HandlerDeposit(mbx, kbd, data_ready, scancode)
    /\ UNCHANGED <<core_vars, stk, irq, spin, mlk, tlk, cmap, kboot, idt, yld, vmc, intr, lkc, pio>>

MbxConsume ==
    /\ kbd' = [ConsumerStep(mbx, kbd).K EXCEPT !.last = KbdReset.last]
    /\ mbx' = ConsumerStep(mbx, kbd).M
    /\ UNCHANGED <<core_vars, stk, irq, spin, mlk, tlk, cmap, kboot, idt, yld, vmc, intr, lkc, pio>>

InitMbx ==
    /\ CoreIdle /\ StkIdle /\ IrqIdle /\ SpinIdle /\ MlkIdle /\ TlkIdle /\ CmapIdle
    /\ KbootIdle /\ IdtIdle /\ YldIdle /\ VmcIdle /\ IntrIdle /\ LkcIdle /\ PioIdle
    /\ kbd = [KbdReset EXCEPT !.system_ready = 1]
    /\ \E reload \in BOOLEAN : mbx = [MbxReset EXCEPT !.reload = reload]

NextMbx ==
    \/ \E data_ready \in BOOLEAN, scancode \in MbxCodes : MbxInterrupt(data_ready, scancode)
    \/ MbxConsume

SpecMbx == InitMbx /\ [][NextMbx]_vars

\* C39: under any interleaving of the keyboard handler with
\* process_pending_key every byte passed to shell_input is a deposited key,
\* no deposit is delivered twice, and the consumer's clear never removes a
\* deposit that was not delivered.
C39_MailboxDelivery ==
    /\ \A i \in DOMAIN mbx.delivered :
           /\ mbx.delivered[i].id \in DOMAIN mbx.deposits
           /\ mbx.deposits[mbx.delivered[i].id] = mbx.delivered[i].byte
    /\ \A i, j \in DOMAIN mbx.delivered :
           i # j => mbx.delivered[i].id # mbx.delivered[j].id
    /\ mbx.wiped = {}

----------------------------------------------------------------------------
(* End of interrupt                                                         *)

\* nothing to read, a key, mouse data, the mouse bit alone
EoiStatus == {0, 1, 33, 32}
\* a, the release of a, left shift, a code past the table, a code whose
\* table entry is zero
EoiCodes == {30, 30 + RELEASE_BIT, LSHIFT_DOWN, 58, 0}

EoiKeyboard(status, scancode) ==
    /\ kbd' = keyboard_handler_io(kbd, status, scancode).K
    /\ pio' = [op |-> "keyboard_handler", irq |-> IRQ_KEYBOARD, status |-> status,
               scancode |-> scancode,
               io |-> keyboard_handler_io(kbd, status, scancode).io]
    /\ UNCHANGED <<core_vars, stk, irq, spin, mlk, tlk, cmap, kboot, idt, yld, vmc, intr, lkc, mbx>>

EoiSend(line) ==
    /\ pio' = [op |-> "pic_send_eoi", irq |-> line, status |-> 0, scancode |-> 0,
               io |-> pic_send_eoi_io(line)]
    /\ UNCHANGED <<core_vars, but_pio>>

InitEoi ==
    /\ CoreIdle /\ SideIdleBut("kbd")
    /\ \E ready \in {0, 1} : kbd = [KbdReset EXCEPT !.system_ready = ready]

NextEoi ==
    \/ \E status \in EoiStatus, scancode \in EoiCodes : EoiKeyboard(status, scancode)
    \/ \E line \in 0 .. 15 : EoiSend(line)
    \/ KbdConsume

SpecEoi == InitEoi /\ [][NextEoi]_vars

\* the writes of PIC_EOI to a command port among the accesses
EoiWrites(io) ==
    SelectSeq(io, LAMBDA a : a.op = "outb" /\ a.value = PIC_EOI
                                 /\ a.port \in {PIC1_COMMAND, PIC2_COMMAND})

\* C40: every run of keyboard_handler ends with exactly one end of
\* interrupt, written to the master PIC, whatever the status byte and the
\* scan code are; pic_send_eoi writes 0x20 to the master only for a line
\* below 8 and to the slave and then to the master for a line from 8 up.
C40_OneEoi ==
    /\ pio.op = "keyboard_handler" =>
           /\ EoiWrites(pio.io) = <<Outb(PIC1_COMMAND, PIC_EOI)>>
           /\ pio.io[Len(pio.io)] = Outb(PIC1_COMMAND, PIC_EOI)
           /\ kbd.eoi = 1
    /\ pio.op = "pic_send_eoi" =>
           pio.io = IF pio.irq < 8
                    THEN <<Outb(PIC1_COMMAND, PIC_EOI)>>
                    ELSE <<Outb(PIC2_COMMAND, PIC_EOI), Outb(PIC1_COMMAND, PIC_EOI)>>

\* mouse data was waiting while the system was not ready: nothing was read
\* and the interrupt was acknowledged
C40_Witness ==
    /\ pio.op = "keyboard_handler" /\ pio.status = 33
    /\ kbd.system_ready = 0 /\ kbd.last.ran /\ ~kbd.last.data_ready
    /\ Len(pio.io) = 2

============================================================================
